---- MODULE Spec2Model ----
(***************************************************************************)
(* Model of the chat route of On-Prem-AI-Canvas                            *)
(* (src/src/app/api/chat/route.ts): the POST handler's streaming state     *)
(* machine (planning -> querying -> explaining -> done | error), the plan  *)
(* normalisation and guardrails, the SPL template compiler and the         *)
(* observability allow-list.                                               *)
(*                                                                         *)
(* Text.  A string is a sequence of chunks.  A chunk is either one of the  *)
(* characters the code or the query language treats specially (space,      *)
(* double quote, backslash, pipe, ...) or a run of other characters        *)
(* written as one TLA+ string.  The empty string is << >>.                 *)
(*                                                                         *)
(* JSON.  A decoded JSON value is a record tagged with its JavaScript      *)
(* type; property access on anything but an object yields undefined.       *)
(*                                                                         *)
(* User message.  The message is a sequence of words; keyword search       *)
(* (String.includes) is the presence of a word carrying the keyword.       *)
(***************************************************************************)
EXTENDS Integers, Sequences, FiniteSets, TLC

\* ------------------------------------------------------------------ bounds
\* Longest narration stream (number of content increments) that is explored.
MaxDeltas == 2

\* ------------------------------------------------------------- text helpers
SP == " "
DQ == "\""
BS == "\\"
PIPE == "|"

RECURSIVE TrimLeft(_)
TrimLeft(s) == IF s # << >> /\ Head(s) = SP THEN TrimLeft(Tail(s)) ELSE s

RECURSIVE TrimRight(_)
TrimRight(s) ==
  IF s # << >> /\ s[Len(s)] = SP THEN TrimRight(SubSeq(s, 1, Len(s) - 1)) ELSE s

\* String.prototype.trim
Trim(s) == TrimRight(TrimLeft(s))

RECURSIVE Flatten(_)
\* the concatenation of a sequence of strings
Flatten(ss) == IF ss = << >> THEN << >> ELSE Head(ss) \o Flatten(Tail(ss))

RECURSIVE JoinWith(_, _)
\* Array.prototype.join(sep) on an array of strings
JoinWith(ss, sep) ==
  IF ss = << >> THEN << >>
  ELSE IF Len(ss) = 1 THEN ss[1]
  ELSE ss[1] \o sep \o JoinWith(Tail(ss), sep)

SeqFilter(s, keep(_)) ==
  LET F[i \in 0..Len(s)] ==
        IF i = 0 THEN << >>
        ELSE IF keep(s[i]) THEN Append(F[i - 1], s[i]) ELSE F[i - 1]
  IN F[Len(s)]

SeqMap(s, f(_)) == [i \in 1..Len(s) |-> f(s[i])]

Range(s) == {s[i] : i \in 1..Len(s)}

\* Array.prototype.slice(0, n)
Take(s, n) == SubSeq(s, 1, IF Len(s) < n THEN Len(s) ELSE n)

Min(a, b) == IF a < b THEN a ELSE b
Max(a, b) == IF a > b THEN a ELSE b

\* ------------------------------------------------------------- JSON values
Undef == [t |-> "undefined"]
Null == [t |-> "null"]
Str(s) == [t |-> "string", s |-> s]
Num(n) == [t |-> "number", n |-> n]
Bool(b) == [t |-> "boolean", b |-> b]
Arr(a) == [t |-> "array", a |-> a]
Obj(o) == [t |-> "object", o |-> o]

\* (v as { k?: unknown })?.k
Get(v, k) == IF v.t = "object" /\ k \in DOMAIN v.o THEN v.o[k] ELSE Undef

IsStr(v) == v.t = "string"

\* JavaScript truthiness of a decoded JSON value
Truthy(v) ==
  CASE v.t = "undefined" -> FALSE
    [] v.t = "null" -> FALSE
    [] v.t = "string" -> v.s # << >>
    [] v.t = "number" -> v.n # 0
    [] v.t = "boolean" -> v.b
    [] OTHER -> TRUE

\* the decimal numeral of an integer, as one chunk
RECURSIVE Numeral(_)
Numeral(n) ==
  IF n < 0 THEN "-" \o Numeral(0 - n)
  ELSE IF n < 10 THEN <<"0", "1", "2", "3", "4", "5", "6", "7", "8", "9">>[n + 1]
  ELSE Numeral(n \div 10) \o Numeral(n % 10)

RECURSIVE ToStr(_)
\* String(v)
ToStr(v) ==
  CASE v.t = "undefined" -> <<"undefined">>
    [] v.t = "null" -> <<"null">>
    [] v.t = "string" -> v.s
    [] v.t = "number" -> <<Numeral(v.n)>>
    [] v.t = "boolean" -> IF v.b THEN <<"true">> ELSE <<"false">>
    [] v.t = "array" ->
         JoinWith([i \in 1..Len(v.a) |->
                     IF v.a[i].t \in {"undefined", "null"} THEN << >> ELSE ToStr(v.a[i])],
                  <<",">>)
    [] OTHER -> <<"[object Object]">>

\* ------------------------------------------------------- character classes
\* String.prototype.toLowerCase / toUpperCase on the chunks the model uses
LowerTable ==
  [c \in {"ATTACK.T1059.001", "NIST.AC-3", "GPU", "Egress", "CRITICAL", "WARNING", "INFO", "Tag",
          "Bearer"} |->
     CASE c = "ATTACK.T1059.001" -> "attack.t1059.001"
       [] c = "NIST.AC-3" -> "nist.ac-3"
       [] c = "GPU" -> "gpu"
       [] c = "Egress" -> "egress"
       [] c = "CRITICAL" -> "critical"
       [] c = "WARNING" -> "warning"
       [] c = "INFO" -> "info"
       [] c = "Tag" -> "tag"
       [] c = "Bearer" -> "bearer"]

LowerChunk(c) == IF c \in DOMAIN LowerTable THEN LowerTable[c] ELSE c

UpperChunk(c) ==
  IF \E u \in DOMAIN LowerTable : LowerTable[u] = c
  THEN CHOOSE u \in DOMAIN LowerTable : LowerTable[u] = c
  ELSE c

ToLower(s) == [i \in 1..Len(s) |-> LowerChunk(s[i])]
ToUpper(s) == [i \in 1..Len(s) |-> UpperChunk(s[i])]

\* chunks made only of characters of [a-z0-9._-]
SlugChunks ==
  {"attack.t1611", "attack.t1059.001", "nist.ac-3", "tag", "critical", "evil.tag",
   "5m", "1h", "7", "x"}

\* /^[a-z0-9._-]+$/.test(s)
IsSlug(s) == s # << >> /\ \A i \in 1..Len(s) : s[i] \in SlugChunks

\* chunks holding a CJK character: /[\u4e00-\u9fff]/
CJKChunks == {"zh:wangluo", "zh:tongxinyichang", "zh:chenggonglv", "zh:chenggongcishu", "zh:xianshi"}

\* the keywords a (lower-cased) chunk contains as substrings, itself included
KeywordsIn(c) ==
  {c} \cup (IF c \in {"attack.t1611", "attack.t1059.001", "attack.txx"} THEN {"attack."} ELSE {})
      \cup (IF c \in {"nist.ac-3"} THEN {"nist", "nist."} ELSE {})

\* s.includes(keyword)
Includes(s, kw) == \E i \in 1..Len(s) : kw \in KeywordsIn(s[i])

\* ------------------------------------------------------------ pure helpers
detectLanguage(msg) == IF \E i \in 1..Len(msg) : msg[i] \in CJKChunks THEN "zh" ELSE "en"

\* the integers a numeric string of the model can spell
KnownNumbers == {0, 5, 7, 10, 50, 9999}

\* Number(v): [finite |-> whether the result is a finite number, n |-> it]
ToNumber(v) ==
  CASE v.t = "number" -> [finite |-> TRUE, n |-> v.n]
    [] v.t = "null" -> [finite |-> TRUE, n |-> 0]
    [] v.t = "boolean" -> [finite |-> TRUE, n |-> IF v.b THEN 1 ELSE 0]
    [] v.t = "string" ->
         IF Trim(v.s) = << >> THEN [finite |-> TRUE, n |-> 0]
         ELSE IF \E k \in KnownNumbers : Trim(v.s) = <<Numeral(k)>>
         THEN [finite |-> TRUE, n |-> CHOOSE k \in KnownNumbers : Trim(v.s) = <<Numeral(k)>>]
         ELSE [finite |-> FALSE, n |-> 0]
    [] v.t = "array" ->
         IF v.a = << >> THEN [finite |-> TRUE, n |-> 0]
         ELSE IF Len(v.a) = 1 /\ v.a[1].t = "number" THEN [finite |-> TRUE, n |-> v.a[1].n]
         ELSE [finite |-> FALSE, n |-> 0]
    [] OTHER -> [finite |-> FALSE, n |-> 0]

\* variant: the upper end of the range is not enforced
clampIntNoUpper(n, lo, hi, dflt) ==
  LET x == ToNumber(n)
  IN IF ~x.finite THEN dflt ELSE Max(lo, x.n)

clampInt(n, lo, hi, dflt) ==
  LET x == ToNumber(n)
  IN IF ~x.finite THEN dflt ELSE Min(hi, Max(lo, x.n))

\* variant: the quotes are escaped, the backslashes are not
escapeSplStringQuotesOnly(s) ==
  Flatten([i \in 1..Len(s) |-> IF s[i] = DQ THEN <<BS, DQ>> ELSE <<s[i]>>])

\* String(v ?? "").replace(/\\/g, "\\\\").replace(/"/g, '\\"')
RECURSIVE escapeSplString(_)
escapeSplString(s) ==
  IF s = << >> THEN << >>
  ELSE IF Head(s) = BS THEN <<BS, BS>> \o escapeSplString(Tail(s))
  ELSE IF Head(s) = DQ THEN <<BS, DQ>> \o escapeSplString(Tail(s))
  ELSE <<Head(s)>> \o escapeSplString(Tail(s))

\* /attack\.t\d{4}(?:\.\d{3})?/gi and /nist\.[a-z0-9._-]+/gi: the chunks that match
AttackTokenChunks == {"attack.t1611", "attack.t1059.001"}
NistTokenChunks == {"nist.ac-3"}

RECURSIVE Dedup(_)
\* insertion order of a Set built by successive add()
Dedup(s) ==
  IF s = << >> THEN << >>
  ELSE LET init == Dedup(SubSeq(s, 1, Len(s) - 1))
       IN IF s[Len(s)] \in Range(init) THEN init ELSE Append(init, s[Len(s)])

extractTagTokens(userMsg) ==
  LET m1 == SeqFilter(ToLower(userMsg), LAMBDA c : c \in AttackTokenChunks)
      m2 == SeqFilter(ToLower(userMsg), LAMBDA c : c \in NistTokenChunks)
      all == Dedup(m1 \o m2)
  IN [i \in 1..Len(all) |-> <<all[i]>>]

userExplicitTagIntent(userMsg) ==
  LET s == ToLower(userMsg)
  IN \/ Includes(s, "mitre") \/ Includes(s, "att&ck") \/ Includes(s, "attack.")
     \/ Includes(s, "nist")
     \/ Len(extractTagTokens(userMsg)) > 0

containsNetworkActivityIntent(userMsg) ==
  LET s == ToLower(userMsg)
  IN \/ Includes(s, "network activity")
     \/ Includes(s, "egress") \/ Includes(s, "ingress")
     \/ Includes(userMsg, "zh:wangluo")

\* ------------------------------------------------- objects with optional keys
\* { } ; obj.k = v ; delete obj.k ; "k" in obj
EmptyObj == << >>
SetKey(f, k, v) == (k :> v) @@ f
DelKey(f, k) == [x \in (DOMAIN f) \ {k} |-> f[x]]
HasKey(f, k) == k \in DOMAIN f

\* allowed.has(str) ? str : dflt, for a set of one-chunk words
EnumOfStr(str, allowed, dflt) ==
  IF \E k \in allowed : str = <<k>> THEN CHOOSE k \in allowed : str = <<k>> ELSE dflt

\* allowed.has(String(v)) ? String(v) : dflt
EnumOr(v, allowed, dflt) == EnumOfStr(ToStr(v), allowed, dflt)

\* obj.k = v when cond holds
SetKeyIf(f, cond, k, v) == IF cond THEN SetKey(f, k, v) ELSE f

\* typeof v === "string" && v.trim() ? v.trim() : dflt
TrimmedOr(v, dflt) == IF IsStr(v) /\ Trim(v.s) # << >> THEN Trim(v.s) ELSE dflt

\* ------------------------------------------------------- security plan schema
allowedKind == {"none", "single", "table", "bar", "pie", "line"}
allowedTemplate == {"count", "table", "count_by", "trend"}
allowedGroup == {"Severity", "node_pod_container", "recent_network_activity", "tag"}
allowedSplit == {"none", "severity"}
Severities == {"CRITICAL", "WARNING", "INFO"}

\* the process configuration (process.env), read where the code reads it
VARIABLE env

\* process.env.DEFAULT_EARLIEST_TIME || "-15m", DEFAULT_LATEST_TIME || "now"
\* (an unset variable is the empty string of the model)
DefaultEarliest == IF env.defaultEarliest # << >> THEN env.defaultEarliest ELSE <<"-15m">>
DefaultLatest == IF env.defaultLatest # << >> THEN env.defaultLatest ELSE <<"now">>

\* variant: the trend template keeps the kind the model proposed
OutputSpecOfTrendKeepsKind(o, kind, template, title) ==
  LET spec0 == [kind |-> kind, template |-> template, title |-> title]
      spec1 ==
        SetKeyIf(SetKeyIf(SetKeyIf(spec0,
          template = "count_by",
            "group_by", EnumOr(Get(o, "group_by"), allowedGroup, "Severity")),
          template = "count_by",
            "limit", clampInt(Get(o, "limit"), 3, 50, 10)),
          template = "count_by" /\ kind # "bar" /\ kind # "pie",
            "kind", "bar")
      spec2 ==
        SetKeyIf(SetKeyIf(spec1,
          template = "trend", "span", TrimmedOr(Get(o, "span"), <<"5m">>)),
          template = "trend", "split", EnumOr(Get(o, "split"), allowedSplit, "none"))
      spec3 == SetKeyIf(spec2, template = "count", "kind", "single")
      spec4 ==
        SetKeyIf(SetKeyIf(spec3,
          template = "table", "kind", "table"),
          template = "table", "limit", clampInt(Get(o, "limit"), 5, 200, 50))
  IN spec4

\* the body of normalizeOutputs' loop once kind, template and title are read
OutputSpecOf(o, kind, template, title) ==
  LET spec0 == [kind |-> kind, template |-> template, title |-> title]
      spec1 ==
        SetKeyIf(SetKeyIf(SetKeyIf(spec0,
          template = "count_by",
            "group_by", EnumOr(Get(o, "group_by"), allowedGroup, "Severity")),
          template = "count_by",
            "limit", clampInt(Get(o, "limit"), 3, 50, 10)),
          template = "count_by" /\ kind # "bar" /\ kind # "pie",
            "kind", "bar")
      spec2 ==
        SetKeyIf(SetKeyIf(SetKeyIf(spec1,
          template = "trend", "span", TrimmedOr(Get(o, "span"), <<"5m">>)),
          template = "trend", "split", EnumOr(Get(o, "split"), allowedSplit, "none")),
          template = "trend", "kind", "line")
      spec3 == SetKeyIf(spec2, template = "count", "kind", "single")
      spec4 ==
        SetKeyIf(SetKeyIf(spec3,
          template = "table", "kind", "table"),
          template = "table", "limit", clampInt(Get(o, "limit"), 5, 200, 50))
  IN spec4

\* variant: an unknown template falls back to the count template
normalizeOutputCountDefault(o) ==
  OutputSpecOf(o, EnumOr(Get(o, "kind"), allowedKind, "none"),
               EnumOr(Get(o, "template"), allowedTemplate, "count"),
               TrimmedOr(Get(o, "title"), <<"Result">>))

normalizeOutput(o) ==
  OutputSpecOf(o, EnumOr(Get(o, "kind"), allowedKind, "none"),
               EnumOr(Get(o, "template"), allowedTemplate, "table"),
               TrimmedOr(Get(o, "title"), <<"Result">>))

normalizeOutputs(rawOutputs) ==
  LET outputsIn == IF rawOutputs.t = "array" THEN rawOutputs.a ELSE << >>
  IN [i \in 1..Len(outputsIn) |-> normalizeOutput(outputsIn[i])]

\* a ?? b
Coalesce(a, b) == IF a.t \in {"undefined", "null"} THEN b ELSE a

\* typeof v === "string" && v.trim(): the filter is set to v.trim()
SetTrimmed(f, k, v) == SetKeyIf(f, IsStr(v) /\ Trim(v.s) # << >>, k, Trim(v.s))

\* the non-empty cleaned list is stored under k
SetNonEmpty(f, k, cleaned) == SetKeyIf(f, Len(cleaned) > 0, k, cleaned)

\* String(x || "")
StrOrEmpty(x) == IF Truthy(x) THEN ToStr(x) ELSE << >>

\* sevRaw mapped and filtered (lines 420-425): the severities as plain words
CleanSeverities(sevRaw) ==
  IF sevRaw.t = "array"
  THEN SeqMap(SeqFilter([i \in 1..Len(sevRaw.a) |-> ToUpper(Trim(StrOrEmpty(sevRaw.a[i])))],
                        LAMBDA x : \E k \in Severities : x = <<k>>),
              LAMBDA x : x[1])
  ELSE << >>

\* tags_exact mapped and filtered (lines 437-442)
CleanTags(rawTags) ==
  IF rawTags.t = "array"
  THEN SeqFilter([i \in 1..Len(rawTags.a) |-> ToLower(Trim(StrOrEmpty(rawTags.a[i])))], IsSlug)
  ELSE << >>

\* the filters read from rf (lines 414-442)
FiltersOf(rf) ==
  LET sevRaw ==
        IF rf.t \in {"object", "array"}
        THEN Coalesce(Get(rf, "severity_exact"), Get(rf, "severity"))
        ELSE Undef
      rawNet == Get(rf, "has_network_activity")
  IN SetNonEmpty(
       SetKeyIf(
         SetTrimmed(
           SetTrimmed(
             SetTrimmed(
               SetNonEmpty(EmptyObj, "severity_exact", CleanSeverities(sevRaw)),
               "description_like", Get(rf, "description_like")),
             "details_like", Get(rf, "details_like")),
           "node_like", Get(rf, "node_like")),
         rawNet.t = "boolean", "has_network_activity", rawNet.t = "boolean" /\ rawNet.b),
       "tags_exact", CleanTags(Get(rf, "tags_exact")))

normalizePlan(raw, userMsg) ==
  [language |-> detectLanguage(userMsg),
   earliest_time |-> TrimmedOr(Get(raw, "earliest_time"), DefaultEarliest),
   latest_time |-> TrimmedOr(Get(raw, "latest_time"), DefaultLatest),
   filters |-> FiltersOf(Coalesce(Get(raw, "filters"), Obj(EmptyObj))),
   outputs |-> normalizeOutputs(Get(raw, "outputs"))]

DefaultTableOutput == [kind |-> "table", title |-> <<"Events">>, template |-> "table", limit |-> 50]

\* variant: the model's tags are only replaced when the text has tokens
GuardTagsTokensOnly(filters, userMsg, tokens) ==
  IF Len(tokens) = 0 THEN filters ELSE SetKey(filters, "tags_exact", tokens)

\* variant: the tokens of the text are added to the tags the plan holds
GuardTagsMerged(filters, userMsg, tokens) ==
  IF ~userExplicitTagIntent(userMsg) \/ Len(tokens) = 0
  THEN DelKey(filters, "tags_exact")
  ELSE SetKey(filters, "tags_exact",
              (IF HasKey(filters, "tags_exact") THEN filters.tags_exact ELSE << >>) \o tokens)

\* the tag guardrail (lines 452-457)
GuardTags(filters, userMsg, tokens) ==
  IF ~userExplicitTagIntent(userMsg) \/ Len(tokens) = 0
  THEN DelKey(filters, "tags_exact")
  ELSE SetKey(filters, "tags_exact", tokens)

\* variant: the keyword sets the flag whatever the plan holds
GuardNetworkAlways(filters, userMsg) ==
  SetKeyIf(filters, containsNetworkActivityIntent(userMsg), "has_network_activity", TRUE)

\* the network-activity guardrail (lines 459-461)
GuardNetwork(filters, userMsg) ==
  SetKeyIf(filters,
           containsNetworkActivityIntent(userMsg) /\ ~HasKey(filters, "has_network_activity"),
           "has_network_activity", TRUE)

\* an empty list is replaced by the default table (lines 463-465)
GuardEmpty(outputs) == IF Len(outputs) = 0 THEN <<DefaultTableOutput>> ELSE outputs

\* a list without meaningful output is replaced by the default table (lines 467-470)
GuardMeaningful(outputs) ==
  IF ~(\E i \in 1..Len(outputs) : outputs[i].kind # "none")
  THEN <<DefaultTableOutput>> ELSE outputs

\* variant: the list of outputs is not cut
ensureGuardrailsUncut(plan, userMsg) ==
  [plan EXCEPT
     !.language = detectLanguage(userMsg),
     !.filters = GuardNetwork(GuardTags(@, userMsg, extractTagTokens(userMsg)), userMsg),
     !.outputs = GuardMeaningful(GuardEmpty(@))]

ensureGuardrails(plan, userMsg) ==
  [plan EXCEPT
     !.language = detectLanguage(userMsg),
     !.filters = GuardNetwork(GuardTags(@, userMsg, extractTagTokens(userMsg)), userMsg),
     !.outputs = Take(GuardMeaningful(GuardEmpty(@)), 4)]

defaultPlan(userMsg) ==
  LET outputs ==
        IF containsNetworkActivityIntent(userMsg)
        THEN <<[kind |-> "bar", title |-> <<"Network", SP, "Activity">>, template |-> "count_by",
                group_by |-> "recent_network_activity", limit |-> 10],
               DefaultTableOutput>>
        ELSE <<[kind |-> "bar", title |-> <<"Severity">>, template |-> "count_by",
                group_by |-> "Severity", limit |-> 10],
               DefaultTableOutput>>
  IN [language |-> detectLanguage(userMsg), earliest_time |-> DefaultEarliest,
      latest_time |-> DefaultLatest, filters |-> EmptyObj, outputs |-> Take(outputs, 4)]

\* ---------------------------------------------------- query template compiler
\* A compiled query is the chunk string of its lines joined by "\n".
NL == "\n"

BASE_SEARCH ==
  JoinWith(<<
    <<PIPE, " savedsearch ", DQ, "Event_Table", DQ>>,
    <<PIPE, " eval _time=strptime(Time,", DQ, "%Y-%m-%d %H:%M:%S", DQ, ")">>,
    <<PIPE, " rename ", DQ, "Recent Network Activity", DQ, " as recent_network_activity ",
      DQ, "Node: Pod/Container", DQ, " as node_pod_container">>
  >>, <<NL>>)

buildFilterPipeline(filters) ==
  LET tagLines ==
        IF HasKey(filters, "tags_exact") /\ Len(filters.tags_exact) > 0
        THEN LET ors == JoinWith(
                   [i \in 1..Len(filters.tags_exact) |->
                      <<"mvfind(__tags,", DQ>> \o escapeSplString(filters.tags_exact[i])
                        \o <<DQ, ")>=0">>],
                   <<" OR ">>)
             IN << <<PIPE, " eval __tags=split(Tags, ", DQ, ", ", DQ, ")">>,
                   <<PIPE, " where (">> \o ors \o <<")">> >>
        ELSE << >>
      c1 == IF HasKey(filters, "severity_exact") /\ Len(filters.severity_exact) > 0
            THEN LET list == JoinWith(
                       [i \in 1..Len(filters.severity_exact) |->
                          <<DQ>> \o escapeSplString(<<filters.severity_exact[i]>>) \o <<DQ>>],
                       <<",">>)
                 IN << <<"in(Severity, ">> \o list \o <<")">> >>
            ELSE << >>
      c2 == IF HasKey(filters, "description_like") /\ Len(filters.description_like) > 0
            THEN << <<"like(Description, ", DQ, "%">>
                      \o escapeSplString(filters.description_like) \o <<"%", DQ, ")">> >>
            ELSE << >>
      c3 == IF HasKey(filters, "details_like") /\ Len(filters.details_like) > 0
            THEN << <<"like(Details, ", DQ, "%">>
                      \o escapeSplString(filters.details_like) \o <<"%", DQ, ")">> >>
            ELSE << >>
      c4 == IF HasKey(filters, "node_like") /\ Len(filters.node_like) > 0
            THEN << <<"like(node_pod_container, ", DQ, "%">>
                      \o escapeSplString(filters.node_like) \o <<"%", DQ, ")">> >>
            ELSE << >>
      c5 == IF HasKey(filters, "has_network_activity")
            THEN IF filters.has_network_activity
                 THEN << <<"recent_network_activity!=", DQ, "N/A", DQ>> >>
                 ELSE << <<"recent_network_activity=", DQ, "N/A", DQ>> >>
            ELSE << >>
      clauses == c1 \o c2 \o c3 \o c4 \o c5
      whereLine ==
        IF Len(clauses) > 0
        THEN << <<PIPE, " where ">> \o JoinWith(clauses, <<" AND ">>) >>
        ELSE << >>
  IN tagLines \o whereLine

splCount(filters) ==
  JoinWith(<<BASE_SEARCH>> \o buildFilterPipeline(filters)
             \o << <<PIPE, " stats count as value">> >>, <<NL>>)

splTable(filters, limit) ==
  LET n == clampInt(limit, 5, 200, 50)
  IN JoinWith(<<BASE_SEARCH>> \o buildFilterPipeline(filters) \o <<
       <<PIPE, " sort 0 -_time">>,
       <<PIPE, " head ", Numeral(n)>>,
       <<PIPE, " table Time Severity Description Tags Details recent_network_activity node_pod_container">>,
       <<PIPE, " rename recent_network_activity as ", DQ, "Recent Network Activity", DQ,
         " node_pod_container as ", DQ, "Node: Pod/Container", DQ>>
     >>, <<NL>>)

splCountBy(filters, groupBy, limit) ==
  LET n == clampInt(limit, 3, 50, 10)
      fp == buildFilterPipeline(filters)
  IN IF groupBy = "tag"
     THEN JoinWith(<<BASE_SEARCH>> \o fp \o <<
            <<PIPE, " eval tag=split(Tags, ", DQ, ", ", DQ, ")">>,
            <<PIPE, " mvexpand tag">>,
            <<PIPE, " stats count as count by tag">>,
            <<PIPE, " sort 0 -count">>,
            <<PIPE, " head ", Numeral(n)>> >>, <<NL>>)
     ELSE IF groupBy = "Severity"
     THEN JoinWith(<<BASE_SEARCH>> \o fp \o <<
            <<PIPE, " stats count as count by Severity">>,
            <<PIPE, " sort 0 -count">>,
            <<PIPE, " head ", Numeral(n)>> >>, <<NL>>)
     ELSE IF groupBy = "node_pod_container"
     THEN JoinWith(<<BASE_SEARCH>> \o fp \o <<
            <<PIPE, " stats count as count by node_pod_container">>,
            <<PIPE, " sort 0 -count">>,
            <<PIPE, " head ", Numeral(n)>> >>, <<NL>>)
     ELSE JoinWith(<<BASE_SEARCH>> \o fp \o <<
            <<PIPE, " stats count as count by recent_network_activity">>,
            <<PIPE, " sort 0 -count">>,
            <<PIPE, " head ", Numeral(n)>> >>, <<NL>>)

\* span is a JSON value here: runPanels passes a string, the type allows more
splTrend(filters, span, split) ==
  LET fp == buildFilterPipeline(filters)
      bucket == TrimmedOr(span, <<"5m">>)
  IN IF split = "severity"
     THEN JoinWith(<<BASE_SEARCH>> \o fp \o <<
            <<PIPE, " timechart span=">> \o bucket,
            <<"  count as total">>,
            <<"  count(eval(Severity=", DQ, "CRITICAL", DQ, ")) as critical">>,
            <<"  count(eval(Severity=", DQ, "WARNING", DQ, ")) as warning">>,
            <<"  count(eval(Severity=", DQ, "INFO", DQ, ")) as info">>,
            <<PIPE, " eval time=strftime(_time,", DQ, "%H:%M", DQ, ")">>,
            <<PIPE, " fields time total critical warning info">> >>, <<NL>>)
     ELSE JoinWith(<<BASE_SEARCH>> \o fp \o <<
            <<PIPE, " timechart span=">> \o bucket \o <<" count as total">>,
            <<PIPE, " eval time=strftime(_time,", DQ, "%H:%M", DQ, ")">>,
            <<PIPE, " fields time total">> >>, <<NL>>)

\* ------------------------------------------------------ observability plans
OBSERVABILITY_ALLOWED_TIMES == {"-15m", "-30m", "-60m"}
OBSERVABILITY_ALLOWED_MCPS == {"grafana", "hubble", "ndi"}
OBSERVABILITY_ALLOWED_TOOLS == {"query_dashboard_timeseries", "fetch_flow_metrics", "fetch_anomalies"}
OBSERVABILITY_ALLOWED_TARGETS ==
  {"hubble-l7-http-metrics-by-workload", "nvidia-dcgm-exporter-dashboard", "vllm-dashboard",
   "ai-serving/foundation-instruct-vllm", "fdtn-ai/Foundation-Sec-8B-Instruct", "default-cluster"}
OBSERVABILITY_ALLOWED_METRICS ==
  {"success_count_per_minute", "success_rate", "gpu_utilization", "policy_drop_flows", "anomaly_events"}
OBSERVABILITY_ALLOWED_VIZ == {"line", "network"}

\* variant: a grafana request is accepted for any of the targets and metrics
isAllowedObservabilityComboLax(req) ==
  IF req.mcp = "grafana"
  THEN req.tool = "query_dashboard_timeseries" /\ req.viz = "line"
  ELSE IF req.mcp = "hubble"
  THEN /\ req.tool = "fetch_flow_metrics" /\ req.viz = "network"
       /\ req.target = "ai-serving/foundation-instruct-vllm" /\ req.metric = "policy_drop_flows"
  ELSE /\ req.mcp = "ndi" /\ req.tool = "fetch_anomalies" /\ req.viz = "network"
       /\ req.target = "default-cluster" /\ req.metric = "anomaly_events"

isAllowedObservabilityCombo(req) ==
  IF req.mcp = "grafana"
  THEN IF req.tool # "query_dashboard_timeseries" \/ req.viz # "line" THEN FALSE
       ELSE IF req.target = "vllm-dashboard" /\ req.metric = "success_count_per_minute" THEN TRUE
       ELSE IF req.target = "hubble-l7-http-metrics-by-workload" /\ req.metric = "success_rate" THEN TRUE
       ELSE IF req.target = "nvidia-dcgm-exporter-dashboard" /\ req.metric = "gpu_utilization" THEN TRUE
       ELSE FALSE
  ELSE IF req.mcp = "hubble"
  THEN /\ req.tool = "fetch_flow_metrics" /\ req.viz = "network"
       /\ req.target = "ai-serving/foundation-instruct-vllm" /\ req.metric = "policy_drop_flows"
  ELSE /\ req.mcp = "ndi" /\ req.tool = "fetch_anomalies" /\ req.viz = "network"
       /\ req.target = "default-cluster" /\ req.metric = "anomaly_events"

\* SET.has(v) ? v : null, for a set of one-chunk words ("" stands for null)
MemberOrNull(v, allowed) ==
  IF IsStr(v) /\ \E k \in allowed : v.s = <<k>>
  THEN CHOOSE k \in allowed : v.s = <<k>>
  ELSE ""

normalizeObservabilityPlan(raw, userMsg) ==
  LET lang == detectLanguage(userMsg)
      rawEarliest == Get(raw, "earliest_time")
      earliest_time ==
        IF IsStr(rawEarliest) /\ \E k \in OBSERVABILITY_ALLOWED_TIMES : rawEarliest.s = <<k>>
        THEN rawEarliest.s ELSE <<"-15m">>
      latest_time == <<"now">>
      rawRequests == Get(raw, "requests")
      requestsIn == IF rawRequests.t = "array" THEN rawRequests.a ELSE << >>
      cand(r) ==
        LET reqObj == Coalesce(r, Obj(EmptyObj))
        IN [mcp |-> MemberOrNull(Get(reqObj, "mcp"), OBSERVABILITY_ALLOWED_MCPS),
            tool |-> MemberOrNull(Get(reqObj, "tool"), OBSERVABILITY_ALLOWED_TOOLS),
            target |-> MemberOrNull(Get(reqObj, "target"), OBSERVABILITY_ALLOWED_TARGETS),
            metric |-> MemberOrNull(Get(reqObj, "metric"), OBSERVABILITY_ALLOWED_METRICS),
            viz |-> MemberOrNull(Get(reqObj, "viz"), OBSERVABILITY_ALLOWED_VIZ),
            title |-> TrimmedOr(Get(reqObj, "title"), <<"Observability">>)]
      keep(q) ==
        /\ q.mcp # "" /\ q.tool # "" /\ q.target # "" /\ q.metric # "" /\ q.viz # ""
        /\ isAllowedObservabilityCombo(q)
      requests == SeqFilter([i \in 1..Len(requestsIn) |-> cand(requestsIn[i])], keep)
  IN [language |-> lang, earliest_time |-> earliest_time, latest_time |-> latest_time,
      requests |-> Take(requests, 3)]

\* the request literals of buildObservabilityRequest, with the title in the given language
ReqHubble(lang) ==
  [mcp |-> "hubble", tool |-> "fetch_flow_metrics", target |-> "ai-serving/foundation-instruct-vllm",
   metric |-> "policy_drop_flows", viz |-> "network",
   title |-> IF lang = "zh" THEN <<"zh:Communication anomaly topology">>
             ELSE <<"Communication anomaly topology">>]
ReqNdi(lang) ==
  [mcp |-> "ndi", tool |-> "fetch_anomalies", target |-> "default-cluster",
   metric |-> "anomaly_events", viz |-> "network",
   title |-> IF lang = "zh" THEN <<"zh:Underlay anomalies">> ELSE <<"Underlay anomalies">>]
ReqSuccessRate(lang) ==
  [mcp |-> "grafana", tool |-> "query_dashboard_timeseries",
   target |-> "hubble-l7-http-metrics-by-workload", metric |-> "success_rate", viz |-> "line",
   title |-> IF lang = "zh" THEN <<"zh:Success rate trend">> ELSE <<"Success rate trend">>]
ReqGpu(lang) ==
  [mcp |-> "grafana", tool |-> "query_dashboard_timeseries",
   target |-> "nvidia-dcgm-exporter-dashboard", metric |-> "gpu_utilization", viz |-> "line",
   title |-> IF lang = "zh" THEN <<"zh:GPU utilization trend">> ELSE <<"GPU utilization trend">>]
ReqSuccessCount(lang) ==
  [mcp |-> "grafana", tool |-> "query_dashboard_timeseries", target |-> "vllm-dashboard",
   metric |-> "success_count_per_minute", viz |-> "line",
   title |-> IF lang = "zh" THEN <<"zh:vLLM success count trend">> ELSE <<"vLLM success count trend">>]

fallbackObservabilityPlan(userMsg) ==
  LET lang == detectLanguage(userMsg)
      s == ToLower(userMsg)
      isAnomaly == \/ Includes(s, "zh:tongxinyichang") \/ Includes(s, "anomaly")
                   \/ Includes(s, "abnormal") \/ Includes(s, "drop")
      isSuccessRate == Includes(s, "zh:chenggonglv") \/ Includes(s, "success rate")
      isGpu == Includes(s, "gpu")
      requests ==
        IF isAnomaly
        THEN <<[mcp |-> "hubble", tool |-> "fetch_flow_metrics",
                target |-> "ai-serving/foundation-instruct-vllm", metric |-> "policy_drop_flows",
                viz |-> "network",
                title |-> IF lang = "zh" THEN <<"zh:Communication anomaly topology">>
                          ELSE <<"Communication anomaly topology">>],
               [mcp |-> "ndi", tool |-> "fetch_anomalies", target |-> "default-cluster",
                metric |-> "anomaly_events", viz |-> "network",
                title |-> IF lang = "zh" THEN <<"zh:Underlay anomalies">>
                          ELSE <<"Underlay anomalies">>]>>
        ELSE IF isSuccessRate
        THEN <<[mcp |-> "grafana", tool |-> "query_dashboard_timeseries",
                target |-> "hubble-l7-http-metrics-by-workload", metric |-> "success_rate",
                viz |-> "line",
                title |-> IF lang = "zh" THEN <<"zh:Success rate trend">>
                          ELSE <<"Success rate trend">>]>>
        ELSE IF isGpu
        THEN <<[mcp |-> "grafana", tool |-> "query_dashboard_timeseries",
                target |-> "nvidia-dcgm-exporter-dashboard", metric |-> "gpu_utilization",
                viz |-> "line",
                title |-> IF lang = "zh" THEN <<"zh:GPU utilization trend">>
                          ELSE <<"GPU utilization trend">>]>>
        ELSE <<[mcp |-> "grafana", tool |-> "query_dashboard_timeseries",
                target |-> "vllm-dashboard", metric |-> "success_count_per_minute",
                viz |-> "line",
                title |-> IF lang = "zh" THEN <<"zh:vLLM success count trend">>
                          ELSE <<"vLLM success count trend">>]>>
  IN [language |-> lang, earliest_time |-> <<"-15m">>, latest_time |-> <<"now">>,
      requests |-> requests]

\* variant: the GPU keyword is examined first
detectObservabilityIntentGpuFirst(userMsg) ==
  LET s == ToLower(userMsg)
  IN IF Includes(s, "gpu") THEN "gpu"
     ELSE IF \/ Includes(s, "zh:tongxinyichang") \/ Includes(s, "anomaly")
             \/ Includes(s, "abnormal") \/ Includes(s, "drop") THEN "anomaly"
     ELSE IF Includes(s, "zh:chenggonglv") \/ Includes(s, "success rate") THEN "success_rate"
     ELSE IF Includes(s, "zh:chenggongcishu") \/ Includes(s, "success count") THEN "success_count"
     ELSE "unknown"

detectObservabilityIntent(userMsg) ==
  LET s == ToLower(userMsg)
  IN IF \/ Includes(s, "zh:tongxinyichang") \/ Includes(s, "anomaly")
        \/ Includes(s, "abnormal") \/ Includes(s, "drop") THEN "anomaly"
     ELSE IF Includes(s, "zh:chenggonglv") \/ Includes(s, "success rate") THEN "success_rate"
     ELSE IF Includes(s, "gpu") THEN "gpu"
     ELSE IF Includes(s, "zh:chenggongcishu") \/ Includes(s, "success count") THEN "success_count"
     ELSE "unknown"

\* variant: an unknown intent has no canonical request
buildObservabilityRequestKnownOnly(intent, lang) ==
  IF intent = "anomaly" THEN <<ReqHubble(lang), ReqNdi(lang)>>
  ELSE IF intent = "success_rate" THEN <<ReqSuccessRate(lang)>>
  ELSE IF intent = "gpu" THEN <<ReqGpu(lang)>>
  ELSE IF intent = "success_count" THEN <<ReqSuccessCount(lang)>>
  ELSE << >>

buildObservabilityRequest(intent, lang) ==
  IF intent = "anomaly" THEN <<ReqHubble(lang), ReqNdi(lang)>>
  ELSE IF intent = "success_rate" THEN <<ReqSuccessRate(lang)>>
  ELSE IF intent = "gpu" THEN <<ReqGpu(lang)>>
  ELSE <<ReqSuccessCount(lang)>>

enforceObservabilityIntent(plan, userMsg) ==
  LET intent == detectObservabilityIntent(userMsg)
  IN IF intent = "unknown" THEN plan
     ELSE [plan EXCEPT !.requests = buildObservabilityRequest(intent, plan.language)]

\* ------------------------------------------------------------ configuration
\* process.env as the handler reads it: the access token, whether a language
\* model endpoint is set, and which of the backend's two settings is missing
getRequiredAppToken(e) == Trim(e.appToken)

\* authorization: "Bearer <token>" (any case), else the x-app-token header
extractBearerToken(r) ==
  LET auth == r.authorization
  IN IF Len(auth) >= 2 /\ LowerChunk(auth[1]) = "bearer" /\ auth[2] = SP
     THEN Trim(SubSeq(auth, 2, Len(auth)))
     ELSE Trim(r.xAppToken)

\* variant: only a missing token is rejected
requireAuthIfConfiguredMissingOnly(r, e) ==
  LET required == getRequiredAppToken(e)
      got == extractBearerToken(r)
  IN IF required = << >> THEN [ok |-> TRUE, status |-> 0]
     ELSE IF got = << >> THEN [ok |-> FALSE, status |-> 401]
     ELSE [ok |-> TRUE, status |-> 0]

requireAuthIfConfigured(r, e) ==
  LET required == getRequiredAppToken(e)
      got == extractBearerToken(r)
  IN IF required = << >> THEN [ok |-> TRUE, status |-> 0]
     ELSE IF got = << >> \/ got # required THEN [ok |-> FALSE, status |-> 401]
     ELSE [ok |-> TRUE, status |-> 0]

\* errors: the name and the message of the thrown value
Err(name, message) == [name |-> name, message |-> message]
ErrMissingQwen == Err("Error", "Missing Qwen endpoint (QWEN_ENDPOINT or QWEN_BASE_URL)")
ErrMissingSplunkEndpoint == Err("Error", "Missing Splunk MCP endpoint (SPLUNK_MCP_ENDPOINT or MCP_ENDPOINT)")
ErrMissingSplunkToken == Err("Error", "Missing Splunk MCP token (SPLUNK_MCP_TOKEN or MCP_TOKEN)")
ErrFetchFailed == Err("TypeError", "fetch failed")
ErrAborted == Err("AbortError", "This operation was aborted")
ErrQwenHttp == Err("Error", "Qwen HTTP 500: ")
ErrSplunkHttp == Err("Error", "Splunk MCP HTTP 500: ")
ErrStreamBodyMissing == Err("Error", "Qwen stream body missing")

\* the outcome of a call: a thrown error or a returned value
Threw(e) == [threw |-> TRUE, err |-> e]
Returned(v) == [threw |-> FALSE, value |-> v]

\* resolveQwenChatCompletionsUrl: throws when no endpoint is configured
resolveQwenChatCompletionsUrl(e) ==
  IF e.qwen THEN Returned("url") ELSE Threw(ErrMissingQwen)

resolveSplunkMcpConfig(e) ==
  IF e.splunk = "noendpoint" THEN Threw(ErrMissingSplunkEndpoint)
  ELSE IF e.splunk = "notoken" THEN Threw(ErrMissingSplunkToken)
  ELSE Returned("config")

getErrorMessage(e) == e.message

\* ------------------------------------------------------- planner output text
\* The planner's text is a sequence of items: prose, "{", "}" and the text of
\* a JSON object's members (which carries the object it decodes to).
Prose == [c |-> "prose"]
LBrace == [c |-> "{"]
RBrace == [c |-> "}"]
Members(obj) == [c |-> "members", obj |-> obj]

\* JSON.parse of a slice that starts with "{" and ends with "}"
JsonParseObject(slice) ==
  IF Len(slice) = 3 /\ slice[2].c = "members" THEN Returned(Obj(slice[2].obj))
  ELSE IF Len(slice) = 2 THEN Returned(Obj(EmptyObj))
  ELSE Threw(Err("SyntaxError", "Unexpected token"))

\* first "{" to last "}"; null when absent, misordered or not parseable
extractJsonObjectLoose(text) ==
  LET opens == {i \in 1..Len(text) : text[i].c = "{"}
      closes == {i \in 1..Len(text) : text[i].c = "}"}
  IN IF opens = {} \/ closes = {} THEN Null
     ELSE LET first == CHOOSE i \in opens : \A j \in opens : i <= j
              last == CHOOSE i \in closes : \A j \in closes : i >= j
          IN IF last <= first THEN Null
             ELSE LET parsed == JsonParseObject(SubSeq(text, first, last))
                  IN IF parsed.threw THEN Null ELSE parsed.value

\* ------------------------------------------------------------------- panels
\* `${prefix}_${Date.now()}_${seq}`: the timestamp is left out
newPanelId(prefix, n) == <<prefix, n>>

normalizeChartData(rows) ==
  [i \in 1..Len(rows) |->
     LET o == rows[i].o
         keys == {k \in DOMAIN o : o[k].t \notin {"null", "undefined"}}
     IN [k \in keys |-> IF o[k].t \in {"string", "number"} THEN o[k] ELSE Str(ToStr(o[k]))]]

normalizeTableValue(v) ==
  IF v.t \in {"null", "undefined"} THEN v
  ELSE IF v.t \in {"string", "number"} THEN v
  ELSE Str(ToStr(v))

TableColumns ==
  <<"Time", "Severity", "Description", "Tags", "Details", "Recent Network Activity",
    "Node: Pod/Container">>

normalizeTableRows(rows, columns) ==
  [i \in 1..Len(rows) |->
     [c \in Range(columns) |-> normalizeTableValue(Get(rows[i], c))]]

\* out.limit as runPanels reads it (undefined when the output has none)
OutField(out, k) ==
  IF ~HasKey(out, k) THEN Undef
  ELSE IF k = "limit" THEN Num(out[k])
  ELSE Str(out[k])

\* runPanels: the backend call made for one output (its arguments), lines 1161-1216
BackendCallFor(p, out) ==
  LET q == CASE out.template = "count" -> splCount(p.filters)
             [] out.template = "table" ->
                  splTable(p.filters, Num(clampInt(OutField(out, "limit"), 5, 200, 50)))
             [] out.template = "count_by" ->
                  splCountBy(p.filters,
                             IF HasKey(out, "group_by") THEN out.group_by ELSE "Severity",
                             Num(clampInt(OutField(out, "limit"), 3, 50, 10)))
             [] OTHER ->
                  splTrend(p.filters,
                           IF HasKey(out, "span") THEN Str(out.span) ELSE Str(<<"5m">>),
                           IF HasKey(out, "split") /\ out.split = "severity"
                           THEN "severity" ELSE "none")
      row_limit ==
          CASE out.template = "count" -> 5
            [] out.template = "table" -> clampInt(OutField(out, "limit"), 5, 200, 50)
            [] out.template = "count_by" -> clampInt(OutField(out, "limit"), 3, 50, 10)
            [] OTHER -> 500
  IN [call |-> "backend", query |-> q, earliest_time |-> p.earliest_time,
      latest_time |-> p.latest_time, row_limit |-> row_limit]

\* runPanels: the panel built from the rows the backend returned for one output
PanelFor(out, spl, rows, n) ==
  CASE out.template = "count" ->
         [panel_id |-> newPanelId("p_single", n), title |-> out.title, kind |-> "single",
          spl |-> spl, label |-> "count",
          value |-> ToNumber(Coalesce(IF Len(rows) > 0 THEN Get(rows[1], "value") ELSE Undef,
                                      Num(0)))]
    [] out.template = "table" ->
         [panel_id |-> newPanelId("p_table", n), title |-> out.title, kind |-> "table",
          spl |-> spl, columns |-> TableColumns, rows |-> normalizeTableRows(rows, TableColumns)]
    [] out.template = "count_by" ->
         LET groupBy == IF HasKey(out, "group_by") THEN out.group_by ELSE "Severity"
         IN [panel_id |-> newPanelId("p_dist", n), title |-> out.title,
             kind |-> IF out.kind = "pie" THEN "pie" ELSE "bar", spl |-> spl,
             xKey |-> IF groupBy \in {"node_pod_container", "recent_network_activity", "tag"}
                      THEN groupBy ELSE "Severity",
             yKey |-> "count", data |-> normalizeChartData(rows),
             drilldownType |-> CASE groupBy = "node_pod_container" -> "node"
                                 [] groupBy = "recent_network_activity" -> "net"
                                 [] groupBy = "tag" -> "tag"
                                 [] OTHER -> "severity"]
    [] OTHER ->
         [panel_id |-> newPanelId("p_trend", n), title |-> out.title, kind |-> "line",
          spl |-> spl, xKey |-> "time",
          seriesKeys |-> IF HasKey(out, "split") /\ out.split = "severity"
                         THEN <<"total", "critical", "warning", "info">> ELSE <<"total">>,
          data |-> normalizeChartData(rows)]

\* mockGrafanaSeries: 15 one-minute points
mockGrafanaSeries(metric) ==
  IF metric = "success_rate" THEN <<100, 100, 98, 95, 92, 85, 75, 60, 45, 30, 20, 10, 5, 2, 0>>
  ELSE IF metric = "gpu_utilization" THEN <<42, 45, 48, 50, 55, 58, 60, 62, 64, 66, 68, 70, 72, 74, 76>>
  ELSE <<5, 5, 5, 4, 4, 3, 3, 2, 2, 1, 1, 1, 0, 0, 0>>

mockHubbleRow == [source |-> "Hubble MCP (Overlay)", nnodes |-> 2, nedges |-> 1]
mockNdiRow == [source |-> "NDI MCP (Underlay)", nnodes |-> 10, nedges |-> 9]

RECURSIVE ObsLoop(_, _, _)
\* the loop of runObservabilityPanels from request i on.  acc.origin[k] lists the
\* plan entries whose result the k-th pushed panel carries (kept for the record;
\* the code does not store it)
ObsLoop(p, i, acc) ==
  IF i > Len(p.requests) THEN acc
  ELSE LET r == p.requests[i]
       IN IF r.viz = "line"
          THEN ObsLoop(p, i + 1,
                 [acc EXCEPT
                    !.pushed = Append(@,
                      [panel_id |-> newPanelId("p_trend", acc.seq), title |-> r.title,
                       kind |-> "line", spl |-> <<"MCP: Grafana (mock)", r.target, r.metric>>,
                       xKey |-> "time", seriesKeys |-> <<"value">>,
                       data |-> mockGrafanaSeries(r.metric)]),
                    !.origin = Append(@, {i}),
                    !.seq = @ + 1])
          ELSE IF r.viz = "network"
          THEN ObsLoop(p, i + 1,
                 [acc EXCEPT
                    !.networkRows =
                       @ \o (IF r.mcp = "hubble" THEN <<mockHubbleRow>> ELSE << >>)
                         \o (IF r.mcp = "ndi" THEN <<mockNdiRow>> ELSE << >>),
                    !.networkFrom = IF r.mcp \in {"hubble", "ndi"} THEN @ \cup {i} ELSE @])
          ELSE ObsLoop(p, i + 1, acc)

\* the network panel pushed after the loop when any network row was collected
ObsFinish(p, acc) ==
  IF Len(acc.networkRows) > 0
  THEN [pushed |-> Append(acc.pushed,
                     [panel_id |-> newPanelId("p_net", acc.seq),
                      title |-> IF p.language = "zh"
                                THEN <<"zh:Communication anomalies (Overlay/Underlay)">>
                                ELSE <<"Communication anomalies (Overlay/Underlay)">>,
                      kind |-> "network", rows |-> acc.networkRows]),
        origin |-> Append(acc.origin, acc.networkFrom)]
  ELSE [pushed |-> acc.pushed, origin |-> acc.origin]

\* runObservabilityPanels: the panels pushed, in order, and their origins
runObservabilityPanels(p) ==
  ObsFinish(p, ObsLoop(p, 1, [pushed |-> << >>, origin |-> << >>, networkRows |-> << >>,
                              networkFrom |-> {}, seq |-> 0]))

\* ----------------------------------------------------- evidence and fallback
\* Array.prototype.slice(-n)
TakeLast(s, n) == SubSeq(s, IF Len(s) > n THEN Len(s) - n + 1 ELSE 1, Len(s))

buildEvidenceFromPanels(ps) ==
  [i \in 1..Len(ps) |->
     LET p == ps[i]
     IN CASE p.kind = "single" -> [kind |-> "single", title |-> p.title, value |-> p.value]
          [] p.kind \in {"bar", "pie"} ->
               [kind |-> p.kind, title |-> p.title, xKey |-> p.xKey, yKey |-> p.yKey,
                top |-> Take(p.data, 10)]
          [] p.kind = "line" ->
               [kind |-> "line", title |-> p.title, xKey |-> p.xKey,
                seriesKeys |-> p.seriesKeys, tail |-> TakeLast(p.data, 12)]
          [] p.kind = "table" ->
               [kind |-> "table", title |-> p.title, columns |-> p.columns,
                sample |-> Take(p.rows, 6), totalRows |-> Len(p.rows)]
          [] OTHER -> [kind |-> "network", title |-> p.title, rows |-> p.rows]]

\* the fallback narration: its headline and the count it quotes
fallbackMarkdown(lang, ps) ==
  LET singles == {i \in 1..Len(ps) : ps[i].kind = "single"}
  IN IF singles # {}
     THEN [lang |-> lang, head |-> "Returned",
           cnt |-> ps[CHOOSE i \in singles : \A j \in singles : i <= j].value]
     ELSE [lang |-> lang, head |-> "Charts and tables returned", cnt |-> [finite |-> FALSE, n |-> 0]]

\* ------------------------------------------------------------------- inputs
\* user messages: plain English, Chinese with the network keyword, a message
\* with network and tag tokens, a tag keyword without token, and messages
\* carrying observability intents
UserMessages ==
  {<<"show", SP, "alerts">>,
   <<"zh:xianshi", "zh:wangluo">>,
   <<"egress", SP, "ATTACK.T1059.001", SP, "nist.ac-3">>,
   <<"mitre", SP, "summary">>,
   <<"GPU", SP, "drop">>,
   <<"gpu">>}

\* what the planner may answer in the security workspace (decoded objects)
RawPlanTypical ==
  [earliest_time |-> Str(<<"-60m">>), latest_time |-> Str(<<"now">>),
   filters |-> Obj([severity_exact |-> Arr(<<Str(<<"critical">>), Str(<<"bogus">>)>>),
                    node_like |-> Str(<<"node-7">>)]),
   outputs |-> Arr(<<Obj([kind |-> Str(<<"single">>), title |-> Str(<<"Count">>),
                          template |-> Str(<<"count">>)]),
                     Obj([kind |-> Str(<<"table">>), title |-> Str(<<"Events">>),
                          template |-> Str(<<"table">>), limit |-> Num(50)])>>)]

RawPlanHostile ==
  [earliest_time |-> Str(<<SP, "-10y@y", SP>>), latest_time |-> Str(<<"+1d">>),
   filters |-> Obj([description_like |-> Str(<<"a", DQ, SP, PIPE, SP, "delete", BS>>),
                    tags_exact |-> Arr(<<Str(<<"evil.tag">>)>>),
                    has_network_activity |-> Bool(FALSE)]),
   outputs |-> Arr(<<Obj([template |-> Str(<<"trend">>),
                          span |-> Str(<<"5m", SP, PIPE, SP, "delete">>),
                          split |-> Str(<<"severity">>)]),
                     Obj([kind |-> Str(<<"pie">>), template |-> Str(<<"count_by">>),
                          group_by |-> Str(<<"tag">>), limit |-> Num(9999)])>>)]

RawPlanAllNone ==
  [outputs |-> Arr(<<Obj([kind |-> Str(<<"none">>), template |-> Str(<<"bogus">>)])>>)]

RawPlanFive ==
  [filters |-> Obj([details_like |-> Str(<<"oom">>)]),
   outputs |-> Arr(<<Obj([template |-> Str(<<"count">>)]),
                     Obj([template |-> Str(<<"table">>), limit |-> Str(<<"abc">>)]),
                     Obj([template |-> Str(<<"count_by">>), limit |-> Num(0)]),
                     Obj([template |-> Str(<<"trend">>)]),
                     Obj([template |-> Str(<<"count">>), title |-> Str(<<"Fifth">>)])>>)]

RawPlanWeird ==
  [earliest_time |-> Num(5), filters |-> Str(<<"x">>), outputs |-> Null]

RawSecurityPlans == {RawPlanTypical, RawPlanHostile, RawPlanAllNone, RawPlanFive, RawPlanWeird}

\* what the planner may answer in the observability workspace
RawReq(mcp, tool, target, metric, viz) ==
  Obj([mcp |-> Str(<<mcp>>), tool |-> Str(<<tool>>), target |-> Str(<<target>>),
       metric |-> Str(<<metric>>), viz |-> Str(<<viz>>)])
RawVllm == RawReq("grafana", "query_dashboard_timeseries", "vllm-dashboard", "success_count_per_minute", "line")
RawGpu == RawReq("grafana", "query_dashboard_timeseries", "nvidia-dcgm-exporter-dashboard", "gpu_utilization", "line")
RawRate == RawReq("grafana", "query_dashboard_timeseries", "hubble-l7-http-metrics-by-workload", "success_rate", "line")
RawHubble == RawReq("hubble", "fetch_flow_metrics", "ai-serving/foundation-instruct-vllm", "policy_drop_flows", "network")
RawNdi == RawReq("ndi", "fetch_anomalies", "default-cluster", "anomaly_events", "network")
RawBadCombo == RawReq("grafana", "query_dashboard_timeseries", "vllm-dashboard", "gpu_utilization", "line")

RawObservabilityPlans ==
  {[earliest_time |-> Str(<<"-30m">>), requests |-> Arr(<<RawVllm>>)],
   [earliest_time |-> Str(<<"-2h">>), requests |-> Arr(<<RawHubble, RawGpu, RawNdi>>)],
   [requests |-> Arr(<<RawBadCombo, RawNdi>>)],
   [requests |-> Arr(<<RawRate, RawGpu, RawVllm, RawHubble>>)],
   [requests |-> Arr(<< >>)],
   [earliest_time |-> Str(<<"-60m">>), requests |-> Str(<<"none">>)]}

\* the text of the planner's answer: empty, prose without braces, braces around
\* something that is no JSON, or a JSON object, bare or wrapped in prose
PlannerTexts(ws) ==
  {<< >>, <<Prose>>, <<Prose, LBrace, Prose, RBrace>>, <<RBrace, Prose, LBrace>>,
   <<LBrace, RBrace>>}
  \cup {<<LBrace, Members(o), RBrace>> :
          o \in IF ws = "observability" THEN RawObservabilityPlans ELSE RawSecurityPlans}
  \cup {<<Prose, LBrace, Members(o), RBrace, Prose>> :
          o \in IF ws = "observability" THEN {} ELSE {RawPlanTypical}}

\* callQwenNonStream once its request is sent: the network fails, the service
\* answers with an error status, or it answers with some text
PlannerOutcomes(ws) ==
  {Threw(ErrFetchFailed), Threw(ErrQwenHttp)} \cup {Returned(t) : t \in PlannerTexts(ws)}

\* callSplunkMcp once its request is sent
BackendRowSets ==
  {<< >>,
   <<Obj([value |-> Num(7), count |-> Num(7), Severity |-> Str(<<"CRITICAL">>),
          Tags |-> Null])>>}
BackendOutcomes ==
  {Threw(ErrFetchFailed), Threw(ErrSplunkHttp)} \cup {Returned(r) : r \in BackendRowSets}

\* the narration stream failing: at any time the connection may break; before
\* the first increment the service may answer with an error status or no body
StreamFailures(n) ==
  {ErrFetchFailed} \cup (IF n = 0 THEN {ErrQwenHttp, ErrStreamBodyMissing} ELSE {})

\* the requests explored: every message in both workspaces without access
\* control, and the access-control and validation cases on one message
OpenHeaders == [authorization |-> << >>, xAppToken |-> << >>]
Body(msg, ws) == [message |-> msg, stream |-> Undef, workspace |-> ws]
Requests ==
  {[headers |-> OpenHeaders, body |-> Body(Str(m), w)] :
     m \in UserMessages, w \in {Undef, Str(<<"observability">>)}}
  \cup {[headers |-> h, body |-> Body(Str(<<"gpu">>), Str(<<"security">>))] :
          h \in {[authorization |-> <<"Bearer", SP, "s3cret">>, xAppToken |-> << >>],
                 [authorization |-> <<"bearer", SP, "wrong">>, xAppToken |-> <<"s3cret">>],
                 [authorization |-> << >>, xAppToken |-> <<"s3cret">>]}}
  \cup {[headers |-> OpenHeaders, body |-> b] :
          b \in {Body(Str(<<SP>>), Undef), Body(Undef, Undef),
                 [message |-> Str(<<"gpu">>), stream |-> Bool(FALSE), workspace |-> Undef],
                 [message |-> Str(<<"gpu">>), stream |-> Bool(TRUE), workspace |-> Str(<<"other">>)]}}

\* the configurations of the full run; the default time range is left unset there
Environments ==
  [appToken : {<< >>, <<"s3cret">>}, qwen : BOOLEAN, splunk : {"ok", "noendpoint", "notoken"},
   defaultEarliest : {<< >>}, defaultLatest : {<< >>}]

\* -------------------------------------------------------------------- state
VARIABLES
  req,       \* the inbound request: headers and decoded body
  pc,        \* where the handler stands
  http,      \* status of the HTTP response (0: none yet)
  frames,    \* the frames written to the response stream, in order
  closed,    \* controller.close() was called
  stage,     \* the handler's `stage` variable
  plan,      \* the resolved plan (NoPlan before it exists)
  panels,    \* the panels pushed so far
  origin,    \* origin[k]: the plan entries whose result panels[k] carries
  idx,       \* runPanels: position of the next output in plan.outputs
  seq,       \* runPanels: the panel sequence counter
  outbound,  \* the outbound calls issued, in order
  ndeltas,   \* increments yielded so far by the narration stream
  planObj,   \* the object decoded from the planner's text (null when there is none)
  narration, \* how the narration call settled: try block completed, or what it threw
  reader     \* callQwenStream's reader: the bytes to come, buf, the lines in hand

vars == <<req, env, pc, http, frames, closed, stage, plan, panels, origin, idx, seq,
          outbound, ndeltas, planObj, narration, reader>>

NoPlan == [none |-> TRUE]
\* the narration stream is not read step by step
NoReader == [at |-> "none"]

\* const userMsg = String(body?.message ?? "").trim()
UserMsgOf(r) == Trim(ToStr(Coalesce(r.body.message, Str(<< >>))))
\* body?.workspace === "observability" ? "observability" : "security"
WorkspaceOf(r) == IF r.body.workspace = Str(<<"observability">>) THEN "observability" ELSE "security"

userMsg == UserMsgOf(req)
workspace == WorkspaceOf(req)

\* write(event, data)
Frame(event, data) == [event |-> event, data |-> data]
StatusFrame(st) == Frame("status", [stage |-> st])
WarningFrame(msg) == Frame("status", [stage |-> "planning_warning", message |-> msg])

Init ==
  /\ req \in Requests
  /\ env \in Environments
  /\ pc = "request"
  /\ http = 0
  /\ frames = << >>
  /\ closed = FALSE
  /\ stage = "planning"
  /\ plan = NoPlan
  /\ panels = << >>
  /\ origin = << >>
  /\ idx = 1
  /\ seq = 0
  /\ outbound = << >>
  /\ ndeltas = 0
  /\ planObj = Null
  /\ narration = Returned("none")
  /\ reader = NoReader

\* ------------------------------------------------------------ the planning stage
\* POST, lines 1343-1363: access control, validation, the first status frame
POST_Entry ==
  /\ pc = "request"
  /\ LET auth == requireAuthIfConfigured(req.headers, env)
     IN IF ~auth.ok
        THEN /\ http' = auth.status /\ pc' = "rejected" /\ UNCHANGED frames
        ELSE IF userMsg = << >>
        THEN /\ http' = 400 /\ pc' = "rejected" /\ UNCHANGED frames
        ELSE IF req.body.stream = Bool(FALSE)
        THEN /\ http' = 400 /\ pc' = "rejected" /\ UNCHANGED frames
        ELSE /\ http' = 200 /\ pc' = "planning"
             /\ frames' = Append(frames, StatusFrame(stage))
  /\ UNCHANGED <<reader, req, env, closed, stage, plan, panels, origin, idx, seq, outbound, ndeltas,
               planObj, narration>>

\* `if (!plan) plan = ...`
OrElse(p, dflt) == IF p = NoPlan THEN dflt ELSE p

\* the text the planner call returned, decoded (null when it threw)
PlanObjOf(res) == IF res.threw THEN Null ELSE extractJsonObjectLoose(res.value)

\* lines 1454-1458: a decoded object is normalised and guarded
SecurityPlanFrom(obj, msg) ==
  IF Truthy(obj) THEN ensureGuardrails(normalizePlan(obj, msg), msg) ELSE NoPlan

\* the planner's outcome turned into a plan, security workspace (lines 1442-1467)
ResolveSecurityPlan(res, msg) ==
  OrElse(SecurityPlanFrom(PlanObjOf(res), msg), ensureGuardrails(defaultPlan(msg), msg))

\* lines 1381-1384: a decoded object is normalised
ObservabilityPlanFrom(obj, msg) ==
  IF Truthy(obj) THEN normalizeObservabilityPlan(obj, msg) ELSE NoPlan

\* variant: only a missing plan is replaced, a plan without requests is kept
OrFallbackMissingOnly(p, msg) ==
  IF p = NoPlan THEN fallbackObservabilityPlan(msg) ELSE p

\* `if (!plan || plan.requests.length === 0) plan = fallbackObservabilityPlan(userMsg)`
OrFallback(p, msg) ==
  IF p = NoPlan \/ Len(p.requests) = 0 THEN fallbackObservabilityPlan(msg) ELSE p

\* the planner's outcome turned into a plan, observability workspace (lines 1369-1393)
ResolveObservabilityPlan(res, msg) ==
  enforceObservabilityIntent(OrFallback(ObservabilityPlanFrom(PlanObjOf(res), msg), msg), msg)

\* the catch around the planner call (lines 1385-1388 and 1459-1462)
PlanningCatch(res) ==
  IF res.threw THEN <<WarningFrame(getErrorMessage(res.err))>> ELSE << >>

\* stage = "querying_..." (lines 1397 and 1471)
QueryingStage(ws) == IF ws = "observability" THEN "querying_mcp" ELSE "querying_splunk"

\* variant: the querying status is written before the plan
PlanningFramesStatusFirst(fr, res, p, st) ==
  fr \o PlanningCatch(res) \o <<StatusFrame(st), Frame("plan", p)>>

\* the frames the planning stage writes once the planner call has settled: the
\* warning if it threw, the plan, the querying status (lines 1385-1398, 1459-1472)
PlanningFrames(fr, res, p, st) ==
  fr \o PlanningCatch(res) \o <<Frame("plan", p), StatusFrame(st)>>

\* from the planner's outcome to the querying status (lines 1381-1398, 1454-1472)
PlanningDone(res) ==
  /\ plan' = IF workspace = "observability"
             THEN ResolveObservabilityPlan(res, userMsg)
             ELSE ResolveSecurityPlan(res, userMsg)
  /\ stage' = QueryingStage(workspace)
  /\ frames' = PlanningFrames(frames, res, plan', stage')
  /\ pc' = "run_panels"
  /\ idx' = 1
  /\ seq' = 0
  /\ planObj' = PlanObjOf(res)

\* callQwenNonStream up to its fetch (lines 939-973): a missing endpoint throws
\* before any request is sent
CallPlanner ==
  /\ pc = "planning"
  /\ LET url == resolveQwenChatCompletionsUrl(env)
     IN IF url.threw
        THEN PlanningDone(url) /\ UNCHANGED outbound
        ELSE /\ outbound' = Append(outbound, [call |-> "planner"])
             /\ pc' = "await_planner"
             /\ UNCHANGED <<frames, stage, plan, idx, seq, planObj>>
  /\ UNCHANGED <<reader, req, env, http, closed, panels, origin, ndeltas, narration>>

\* the planner call settles: fetch rejects, the status is not ok, or text returns
PlannerResponds ==
  /\ pc = "await_planner"
  /\ \E res \in PlannerOutcomes(workspace) : PlanningDone(res)
  /\ UNCHANGED <<reader, req, env, http, closed, panels, origin, outbound, ndeltas, narration>>

\* the planner call's timer fires: controller.abort() rejects the fetch
PlannerTimeout ==
  /\ pc = "await_planner"
  /\ PlanningDone(Threw(ErrAborted))
  /\ UNCHANGED <<reader, req, env, http, closed, panels, origin, outbound, ndeltas, narration>>

\* ------------------------------------------------------------ the querying stage
\* variant: the outer catch reports the failure in a done frame
OuterCatchAsDone(fr, st, e) ==
  Append(fr, Frame("done", [llm_ok |-> FALSE, llm_error |-> getErrorMessage(e)]))

\* the handler's outer catch (lines 1514-1518): the error frame, then close
OuterCatch(fr, st, e) ==
  Append(fr, Frame("error",
    [stage |-> st,
     message |-> IF e.name = "AbortError" THEN "Request aborted by timeout"
                 ELSE getErrorMessage(e)]))

\* a throw that reaches the outer catch ends the run
Fatal(e) ==
  /\ frames' = OuterCatch(frames, stage, e)
  /\ closed' = TRUE
  /\ pc' = "closed"

\* runPanels (lines 1155-1223), one turn of its loop up to the backend call's
\* fetch: outputs of kind none are skipped, a missing backend setting throws
RunPanelsStep ==
  /\ pc = "run_panels"
  /\ workspace = "security"
  /\ IF idx > Len(plan.outputs)
     THEN /\ pc' = "explain"
          /\ UNCHANGED <<frames, closed, idx, outbound>>
     ELSE IF plan.outputs[idx].kind = "none"
             \/ plan.outputs[idx].template \notin allowedTemplate
     THEN /\ idx' = idx + 1
          /\ UNCHANGED <<pc, frames, closed, outbound>>
     ELSE LET cfg == resolveSplunkMcpConfig(env)
          IN IF cfg.threw
             THEN Fatal(cfg.err) /\ UNCHANGED <<idx, outbound>>
             ELSE /\ outbound' = Append(outbound, BackendCallFor(plan, plan.outputs[idx]))
                  /\ pc' = "await_backend"
                  /\ UNCHANGED <<frames, closed, idx>>
  /\ UNCHANGED <<reader, req, env, http, stage, plan, panels, origin, seq, ndeltas, planObj, narration>>

\* pushPanel (lines 1475-1478)
PushPanel(fr, p) == Append(fr, Frame("panel", p))

\* variant: the loop does not move on to the next output
PanelPushedSameOutput(p) ==
  /\ panels' = Append(panels, p)
  /\ origin' = Append(origin, {idx})
  /\ frames' = PushPanel(frames, p)
  /\ seq' = seq + 1
  /\ idx' = idx
  /\ pc' = "run_panels"
  /\ UNCHANGED closed

\* the rest of the loop's turn once the rows are back: the panel is built and pushed
PanelPushed(p) ==
  /\ panels' = Append(panels, p)
  /\ origin' = Append(origin, {idx})
  /\ frames' = PushPanel(frames, p)
  /\ seq' = seq + 1
  /\ idx' = idx + 1
  /\ pc' = "run_panels"
  /\ UNCHANGED closed

\* the backend call settles (lines 291-309): rows make a panel that is pushed; a
\* throw leaves runPanels and the try block
BackendResponds ==
  /\ pc = "await_backend"
  /\ \E res \in BackendOutcomes :
       IF res.threw
       THEN Fatal(res.err) /\ UNCHANGED <<panels, origin, idx, seq>>
       ELSE PanelPushed(PanelFor(plan.outputs[idx], outbound[Len(outbound)].query,
                                 res.value, seq))
  /\ UNCHANGED <<reader, req, env, http, stage, plan, outbound, ndeltas, planObj, narration>>

\* runObservabilityPanels (lines 1285-1317, called at 1401): no outbound call
RunObservabilityPanels ==
  /\ pc = "run_panels"
  /\ workspace = "observability"
  /\ panels' = runObservabilityPanels(plan).pushed
  /\ origin' = runObservabilityPanels(plan).origin
  /\ frames' = frames \o [k \in 1..Len(panels') |-> Frame("panel", panels'[k])]
  /\ seq' = Len(panels')
  /\ pc' = "explain"
  /\ UNCHANGED <<reader, req, env, http, closed, stage, plan, idx, outbound, ndeltas, planObj, narration>>

\* ---------------------------------------------------------- the explaining stage
\* variant: the catch rethrows after its done frame, and the outer catch answers
NarrationCatchRethrow(fr, p, ps, e) ==
  fr \o <<Frame("delta", [text |-> fallbackMarkdown(p.language, ps)]),
          Frame("done", [llm_ok |-> FALSE, llm_error |-> getErrorMessage(e)]),
          Frame("error", [stage |-> "explaining", message |-> getErrorMessage(e)])>>

\* variant: the catch writes the done frame without the fallback narration
NarrationCatchNoFallback(fr, p, ps, e) ==
  Append(fr, Frame("done", [llm_ok |-> FALSE, llm_error |-> getErrorMessage(e)]))

\* the catch around the narration stream (lines 1431-1436 and 1506-1511)
NarrationCatch(fr, p, ps, e) ==
  fr \o <<Frame("delta", [text |-> fallbackMarkdown(p.language, ps)]),
          Frame("done", [llm_ok |-> FALSE, llm_error |-> getErrorMessage(e)])>>

\* the stream ran to its end (lines 1430 and 1505)
NarrationDone(fr) == Append(fr, Frame("done", [llm_ok |-> TRUE]))

\* the status frame, the evidence, and callQwenStream up to its fetch
\* (lines 1406-1427, 1480-1502, 1000-1034)
StartExplain ==
  /\ pc = "explain"
  /\ stage' = "explaining"
  /\ LET fr == Append(frames, StatusFrame("explaining"))
         url == resolveQwenChatCompletionsUrl(env)
     IN IF url.threw
        THEN /\ frames' = NarrationCatch(fr, plan, panels, url.err)
             /\ narration' = url
             /\ closed' = TRUE
             /\ pc' = "closed"
             /\ UNCHANGED outbound
        ELSE /\ frames' = fr
             /\ outbound' = Append(outbound,
                  [call |-> "narration", evidence |-> buildEvidenceFromPanels(panels)])
             /\ narration' = Returned("streaming")
             /\ pc' = "await_stream"
             /\ UNCHANGED closed
  /\ ndeltas' = 0
  /\ UNCHANGED <<reader, req, env, http, plan, panels, origin, idx, seq, planObj>>

\* the stream yields one more content increment, which is forwarded at once
StreamDelta ==
  /\ pc = "await_stream"
  /\ ndeltas < MaxDeltas
  /\ ndeltas' = ndeltas + 1
  /\ frames' = Append(frames, Frame("delta", [text |-> <<"increment", ndeltas + 1>>]))
  /\ UNCHANGED <<reader, req, env, pc, http, closed, stage, plan, panels, origin, idx, seq, outbound,
               planObj, narration>>

\* the stream ends
StreamEnd ==
  /\ pc = "await_stream"
  /\ frames' = NarrationDone(frames)
  /\ narration' = Returned("completed")
  /\ closed' = TRUE
  /\ pc' = "closed"
  /\ UNCHANGED <<reader, req, env, http, stage, plan, panels, origin, idx, seq, outbound, ndeltas, planObj>>

\* the narration call fails
StreamFails ==
  /\ pc = "await_stream"
  /\ \E e \in StreamFailures(ndeltas) :
       /\ frames' = NarrationCatch(frames, plan, panels, e)
       /\ narration' = Threw(e)
  /\ closed' = TRUE
  /\ pc' = "closed"
  /\ UNCHANGED <<reader, req, env, http, stage, plan, panels, origin, idx, seq, outbound, ndeltas, planObj>>

\* the narration call's timer fires
StreamTimeout ==
  /\ pc = "await_stream"
  /\ frames' = NarrationCatch(frames, plan, panels, ErrAborted)
  /\ narration' = Threw(ErrAborted)
  /\ closed' = TRUE
  /\ pc' = "closed"
  /\ UNCHANGED <<reader, req, env, http, stage, plan, panels, origin, idx, seq, outbound, ndeltas, planObj>>

\* ------------------------------------------------------------- specification
Next ==
  \/ POST_Entry
  \/ CallPlanner
  \/ PlannerResponds
  \/ PlannerTimeout
  \/ RunPanelsStep
  \/ BackendResponds
  \/ RunObservabilityPanels
  \/ StartExplain
  \/ StreamDelta
  \/ StreamEnd
  \/ StreamFails
  \/ StreamTimeout

Spec == Init /\ [][Next]_vars

\* The handler's own steps run to the next await, and the two timers
\* (setTimeout in callQwenNonStream and callQwenStream) fire unless their call
\* settles first.  Nothing obliges the remote services to answer.
FairSpec ==
  /\ Spec
  /\ WF_vars(POST_Entry)
  /\ WF_vars(CallPlanner)
  /\ WF_vars(PlannerTimeout)
  /\ WF_vars(RunPanelsStep)
  /\ WF_vars(RunObservabilityPanels)
  /\ WF_vars(StartExplain)
  /\ WF_vars(StreamTimeout)

\* ------------------------------------------------- the planning functions alone
\* The functions that turn a decoded planner object into the executed plan and
\* its backend calls, applied in the order POST and runPanels apply them, to a
\* wider choice of decoded objects and user messages than the full run explores.

\* user messages: those of the full run, one per observability keyword, texts
\* with the keywords of two intents, and tag keywords without a tag token
PlanMessages ==
  UserMessages \cup
  {<<"anomaly">>, <<"abnormal">>, <<"zh:tongxinyichang">>,
   <<"success rate">>, <<"zh:chenggonglv">>,
   <<"success count">>, <<"zh:chenggongcishu">>,
   <<"success count", SP, "gpu">>, <<"success rate", SP, "drop">>,
   <<"att&ck">>, <<"attack.txx">>, <<"Tag", SP, "evil.tag">>}

\* the values a model may put under "limit" (undefined: the key is absent)
LimitProbes ==
  {Undef, Null, Str(<< >>), Str(<<SP>>), Str(<<"abc">>), Str(<<"7">>), Str(<<"9999">>),
   Bool(TRUE), Bool(FALSE), Arr(<< >>), Arr(<<Num(7)>>), Arr(<<Num(7), Num(8)>>),
   Obj(EmptyObj), Num(0), Num(0 - 5), Num(3), Num(4), Num(7), Num(50), Num(51),
   Num(200), Num(201), Num(9999)}

\* a table and a distribution output carrying the same limit
LimitProbePlan(l) ==
  [outputs |-> Arr(<<Obj([template |-> Str(<<"table">>), limit |-> l]),
                     Obj([template |-> Str(<<"count_by">>), limit |-> l])>>)]

\* decoded objects of odd shapes: entries that are no objects, values outside
\* the enumerations, blank or wrongly typed strings, too many outputs, none
ShapeProbePlans ==
  {[outputs |-> Arr(<<Null, Num(3), Str(<<"x">>), Obj(EmptyObj)>>)],
   [earliest_time |-> Str(<<SP>>), latest_time |-> Null, filters |-> Null,
    outputs |-> Arr(<<Obj([kind |-> Str(<<"heatmap">>), template |-> Str(<<"bogus">>),
                           title |-> Str(<<SP>>), limit |-> Num(7)]),
                      Obj([kind |-> Str(<<"line">>), template |-> Str(<<"count_by">>),
                           group_by |-> Str(<<"host">>), title |-> Num(5)]),
                      Obj([kind |-> Str(<<"pie">>), template |-> Str(<<"trend">>),
                           span |-> Str(<<SP>>), split |-> Str(<<"bogus">>)]),
                      Obj([kind |-> Null, template |-> Arr(<<Str(<<"count">>)>>),
                           span |-> Num(5), split |-> Null])>>)],
   [earliest_time |-> Arr(<<Str(<<"-60m">>)>>), latest_time |-> Str(<<SP, "now", SP>>),
    filters |-> Obj([severity |-> Arr(<<Str(<<SP, "critical">>), Str(<<"LOW">>), Null,
                                        Num(5), Str(<<"INFO">>)>>),
                     description_like |-> Str(<<SP>>), details_like |-> Num(5),
                     node_like |-> Null, has_network_activity |-> Str(<<"true">>),
                     tags_exact |-> Arr(<<Str(<<"attack.t1611">>), Str(<<"nist.ac-3">>)>>)]),
    outputs |-> Arr(<<Obj([template |-> Str(<<"trend">>), span |-> Str(<<SP, "1h", SP>>),
                           split |-> Str(<<"none">>), title |-> Str(<<SP, "Trend", SP>>)])>>)],
   [filters |-> Obj([severity_exact |-> Str(<<"CRITICAL">>), tags_exact |-> Str(<<"tag">>),
                     has_network_activity |-> Bool(TRUE)]),
    outputs |-> Arr(<<Obj([template |-> Str(<<"count">>), title |-> Str(<<"A">>)]),
                      Obj([template |-> Str(<<"table">>), title |-> Str(<<"B">>)]),
                      Obj([template |-> Str(<<"count_by">>), title |-> Str(<<"C">>)]),
                      Obj([template |-> Str(<<"trend">>), title |-> Str(<<"D">>)]),
                      Obj([template |-> Str(<<"count">>), title |-> Str(<<"E">>)]),
                      Obj([template |-> Str(<<"table">>), title |-> Str(<<"F">>)])>>)],
   [outputs |-> Arr(<< >>)],
   [outputs |-> Obj(EmptyObj)]}

\* observability answers of odd shapes: entries that are no objects, fields of
\* the wrong type, one field off the lists, valid tuples around invalid ones
ShapeProbeObservabilityPlans ==
  {[earliest_time |-> Num(15), latest_time |-> Str(<<"-1h">>),
    requests |-> Arr(<<Null, Num(3), Str(<<"gpu">>), RawGpu>>)],
   [requests |-> Arr(<<RawBadCombo, RawRate, RawBadCombo, RawVllm, RawGpu, RawNdi>>)],
   [requests |-> Arr(<<RawReq("grafana", "query_dashboard_timeseries", "vllm-dashboard",
                              "success_count_per_minute", "network"),
                       RawReq("hubble", "fetch_anomalies", "default-cluster",
                              "anomaly_events", "network"),
                       RawReq("ndi", "fetch_anomalies", "default-cluster", "anomaly_events", "line"),
                       RawReq("prometheus", "query_dashboard_timeseries", "vllm-dashboard",
                              "success_count_per_minute", "line"),
                       RawHubble>>)],
   [requests |-> Arr(<<Obj([mcp |-> Arr(<<Str(<<"ndi">>)>>), tool |-> Str(<<"fetch_anomalies">>),
                            target |-> Str(<<"default-cluster">>),
                            metric |-> Str(<<"anomaly_events">>), viz |-> Str(<<"network">>)]),
                       Obj([mcp |-> Str(<<"ndi">>), tool |-> Str(<<"fetch_anomalies">>),
                            target |-> Str(<<"default-cluster">>), viz |-> Str(<<"network">>)]),
                       Obj([mcp |-> Str(<<"ndi">>), tool |-> Str(<<"fetch_anomalies">>),
                            target |-> Str(<<"default-cluster">>),
                            metric |-> Str(<<"anomaly_events">>), viz |-> Str(<<"network">>),
                            title |-> Str(<<SP, "Underlay", SP>>)])>>)]}

\* what JSON.parse may have produced for the planner's text (null: nothing)
DecodedObjects(ws) ==
  {Null} \cup
  (IF ws = "observability"
   THEN {Obj(o) : o \in RawObservabilityPlans \cup ShapeProbeObservabilityPlans}
   ELSE {Obj(o) : o \in RawSecurityPlans \cup ShapeProbePlans}
        \cup {Obj(LimitProbePlan(l)) : l \in LimitProbes})

\* the configured service, with the default time range left unset or set
PlanEnvironments ==
  {[appToken |-> << >>, qwen |-> TRUE, splunk |-> "ok", defaultEarliest |-> e[1],
    defaultLatest |-> e[2]] : e \in {<< << >>, << >> >>, << <<"-24h">>, <<"-1h">> >>}}

PlanInit ==
  /\ req \in {[headers |-> OpenHeaders, body |-> Body(Str(m), w)] :
                m \in PlanMessages, w \in {Undef, Str(<<"observability">>)}}
  /\ env \in PlanEnvironments
  /\ planObj \in DecodedObjects(workspace)
  /\ pc = "decoded"
  /\ http = 200
  /\ frames = << >>
  /\ closed = FALSE
  /\ stage = "planning"
  /\ plan = NoPlan
  /\ panels = << >>
  /\ origin = << >>
  /\ idx = 1
  /\ seq = 0
  /\ outbound = << >>
  /\ ndeltas = 0
  /\ narration = Returned("none")
  /\ reader = NoReader

\* `if (planObj) plan = normalize...(planObj, userMsg)` (lines 1382-1384,
\* 1455-1456) and, in the security workspace, `if (!plan) plan = defaultPlan(userMsg)`
ApplyNormalize ==
  /\ pc = "decoded"
  /\ plan' = IF workspace = "observability"
             THEN ObservabilityPlanFrom(planObj, userMsg)
             ELSE IF Truthy(planObj) THEN normalizePlan(planObj, userMsg)
             ELSE defaultPlan(userMsg)
  /\ pc' = "normalized"
  /\ UNCHANGED <<reader, req, env, http, frames, closed, stage, panels, origin, idx, seq, outbound,
                 ndeltas, planObj, narration>>

\* ensureGuardrails(plan, userMsg) (lines 1457, 1466); the fallback and the
\* intent override of the observability workspace (lines 1390-1393)
ApplyGuardrails ==
  /\ pc = "normalized"
  /\ plan' = IF workspace = "observability"
             THEN enforceObservabilityIntent(OrFallback(plan, userMsg), userMsg)
             ELSE ensureGuardrails(plan, userMsg)
  /\ pc' = "guarded"
  /\ UNCHANGED <<reader, req, env, http, frames, closed, stage, panels, origin, idx, seq, outbound,
                 ndeltas, planObj, narration>>

\* runPanels: the query and the arguments of the backend call of the next output
ApplyCompile ==
  /\ pc = "guarded"
  /\ workspace = "security"
  /\ idx <= Len(plan.outputs)
  /\ outbound' = Append(outbound, BackendCallFor(plan, plan.outputs[idx]))
  /\ idx' = idx + 1
  /\ UNCHANGED <<reader, req, env, pc, http, frames, closed, stage, plan, panels, origin, seq,
                 ndeltas, planObj, narration>>

PlanNext == ApplyNormalize \/ ApplyGuardrails \/ ApplyCompile

PlanSpec == PlanInit /\ [][PlanNext]_vars

\* ------------------------------------------------- the escaping function alone
\* A filter value over an alphabet with the double quote, the backslash and the
\* pipe, carried from the model's answer into the compiled query.

\* the longest filter value explored
MaxLen == 3

RECURSIVE StringsUpTo(_)
\* the strings of at most n characters over the alphabet
StringsUpTo(n) ==
  IF n = 0 THEN {<< >>}
  ELSE StringsUpTo(n - 1)
         \cup {Append(s, c) : s \in {t \in StringsUpTo(n - 1) : Len(t) = n - 1},
                              c \in {"a", DQ, BS, PIPE}}

\* the model's answer: one filter value and one count output
EscapeProbePlan(s) ==
  [filters |-> Obj([description_like |-> Str(s)]),
   outputs |-> Arr(<<Obj([template |-> Str(<<"count">>)])>>)]

EscapeInit ==
  /\ req = [headers |-> OpenHeaders, body |-> Body(Str(<<"show", SP, "alerts">>), Undef)]
  /\ env \in {e \in PlanEnvironments : e.defaultEarliest = << >>}
  /\ planObj \in {Obj(EscapeProbePlan(s)) : s \in StringsUpTo(MaxLen) \ {<< >>}}
  /\ pc = "decoded"
  /\ http = 200
  /\ frames = << >>
  /\ closed = FALSE
  /\ stage = "planning"
  /\ plan = NoPlan
  /\ panels = << >>
  /\ origin = << >>
  /\ idx = 1
  /\ seq = 0
  /\ outbound = << >>
  /\ ndeltas = 0
  /\ narration = Returned("none")
  /\ reader = NoReader

EscapeSpec == EscapeInit /\ [][PlanNext]_vars

\* ------------------------------------------------- the evidence function alone
\* buildEvidenceFromPanels applied to panels of every kind and of growing size.

\* the largest number of rows, points or topology rows of a panel explored
MaxRows == 13

\* n rows as the backend returns them
BackendRows(n) ==
  [i \in 1..n |-> Obj([value |-> Num(i), count |-> Num(i), total |-> Num(i),
                       Severity |-> Str(<<"INFO">>), Tags |-> Null])]

\* the outputs whose panels are built: one of each template, both chart kinds
EvidenceOutputs ==
  {[kind |-> "single", title |-> <<"Count">>, template |-> "count"],
   DefaultTableOutput,
   [kind |-> "bar", title |-> <<"Severity">>, template |-> "count_by", group_by |-> "Severity",
    limit |-> 10],
   [kind |-> "pie", title |-> <<"Severity">>, template |-> "count_by", group_by |-> "Severity",
    limit |-> 10],
   [kind |-> "line", title |-> <<"Trend">>, template |-> "trend", span |-> <<"5m">>,
    split |-> "none"]}

\* the panels of n rows: those runPanels builds from n backend rows, and the
\* topology panel runObservabilityPanels builds from n collected rows
PanelsOfSize(n) ==
  {PanelFor(out, <<"search">>, BackendRows(n), 0) : out \in EvidenceOutputs}
  \cup {[panel_id |-> newPanelId("p_net", 0),
         title |-> <<"Communication anomalies (Overlay/Underlay)">>, kind |-> "network",
         rows |-> [i \in 1..n |-> IF i % 2 = 1 THEN mockHubbleRow ELSE mockNdiRow]]}

EvidenceInit ==
  /\ panels \in {<< >>}
       \cup {<<p>> : p \in UNION {PanelsOfSize(n) : n \in 0..MaxRows}}
       \cup {<<p, q>> : p \in PanelsOfSize(1), q \in PanelsOfSize(MaxRows)}
  /\ req = [headers |-> OpenHeaders, body |-> Body(Str(<<"show", SP, "alerts">>), Undef)]
  /\ env \in {e \in PlanEnvironments : e.defaultEarliest = << >>}
  /\ pc = "explain"
  /\ http = 200
  /\ frames = << >>
  /\ closed = FALSE
  /\ stage = "explaining"
  /\ plan = NoPlan
  /\ planObj = Null
  /\ origin = << >>
  /\ idx = 1
  /\ seq = Len(panels)
  /\ outbound = << >>
  /\ ndeltas = 0
  /\ narration = Returned("none")
  /\ reader = NoReader

\* the evidence handed to the narration call (lines 1406-1409 and 1480-1483)
ApplyEvidence ==
  /\ pc = "explain"
  /\ outbound' = Append(outbound,
       [call |-> "narration", evidence |-> buildEvidenceFromPanels(panels)])
  /\ pc' = "await_stream"
  /\ UNCHANGED <<reader, req, env, http, frames, closed, stage, plan, panels, origin, idx, seq,
                 ndeltas, planObj, narration>>

EvidenceNext == ApplyEvidence

EvidenceSpec == EvidenceInit /\ [][EvidenceNext]_vars

\* ------------------------------------------- the narration stream, read in chunks
\* Most events of one narration stream, the closing sentinel apart.
MaxEvents == 2

\* the text of the stream is a sequence of pieces; "data:" comes in two of
\* them, so that a chunk of the transport may end inside it
DataPrefix == <<"da", "ta:">>
JsonOpen == "{choices:[{delta:{content:"
JsonClose == "}}]}"
JsonRoleOnly == "{choices:[{delta:{role:assistant}}]}"
EscapedNL == "\\n"
DoneSentinel == "[DONE]"
CommentLine == <<":", SP, "ping">>

\* the lines the service may put in an event: a delta with content, a delta
\* with a role only, a comment
ContentLine(c) ==
  DataPrefix \o <<SP, JsonOpen>>
    \o [i \in 1..Len(c) |-> IF c[i] = NL THEN EscapedNL ELSE c[i]] \o <<JsonClose>>
RoleLine == DataPrefix \o <<SP, JsonRoleOnly>>
SentinelLine == DataPrefix \o <<SP, DoneSentinel>>

\* the contents a delta may carry: a letter, text that starts with a space,
\* text with a blank line in it, nothing
DeltaContents == {<<"a">>, <<SP, "b">>, <<"a", NL, NL, "b">>, << >>}

\* an event is the sequence of its lines; content is what its data lines carry
StreamEvents ==
  {[lines |-> <<ContentLine(c)>>, content |-> <<c>>] : c \in DeltaContents}
  \cup {[lines |-> <<RoleLine>>, content |-> << >>],
        [lines |-> <<CommentLine>>, content |-> << >>],
        [lines |-> <<ContentLine(<<"a">>), ContentLine(<<"b">>)>>, content |-> <<<<"a">>, <<"b">>>>]}
SentinelEvent == [lines |-> <<SentinelLine>>, content |-> << >>]

\* the bytes of an event: its lines, each ended by a line feed, and a blank line
EventText(ev) == Flatten([i \in 1..Len(ev.lines) |-> ev.lines[i] \o <<NL>>]) \o <<NL>>
StreamText(evs) == Flatten([i \in 1..Len(evs) |-> EventText(evs[i])])

\* the streams explored: up to MaxEvents events and the sentinel
EventSeqs(n) == UNION {[1..k -> StreamEvents] : k \in 0..n}
UpstreamStreams == {Append(evs, SentinelEvent) : evs \in EventSeqs(MaxEvents)}

\* buf.indexOf("\n\n"), counted from 1; 0 when there is none
IndexOfBlankLine(buf) ==
  LET hits == {i \in 1..(Len(buf) - 1) : buf[i] = NL /\ buf[i + 1] = NL}
  IN IF hits = {} THEN 0 ELSE CHOOSE i \in hits : \A j \in hits : i <= j

RECURSIVE SplitLines(_)
\* chunk.split("\n")
SplitLines(s) ==
  LET hits == {i \in 1..Len(s) : s[i] = NL}
  IN IF hits = {} THEN <<s>>
     ELSE LET i == CHOOSE k \in hits : \A j \in hits : k <= j
          IN <<SubSeq(s, 1, i - 1)>> \o SplitLines(SubSeq(s, i + 1, Len(s)))

\* chunk.split("\n").map((l) => l.trim())
LinesOf(chunk) == SeqMap(SplitLines(chunk), Trim)

\* variant: what follows the event in the buffer is dropped
RestAfterDropped(buf, i) == << >>

\* buf.slice(idx + 2)
RestAfter(buf, i) == SubSeq(buf, i + 2, Len(buf))

\* tryParseJson(payload) for the texts the service sends; null for any other
ParseDelta(payload) ==
  IF payload = <<JsonRoleOnly>>
  THEN Obj([choices |-> Arr(<<Obj([delta |-> Obj([role |-> Str(<<"assistant">>)])])>>)])
  ELSE IF /\ Len(payload) >= 2 /\ payload[1] = JsonOpen /\ payload[Len(payload)] = JsonClose
          /\ \A i \in 2..(Len(payload) - 1) : payload[i] \notin {JsonOpen, JsonClose, NL}
  THEN Obj([choices |-> Arr(<<Obj([delta |-> Obj([content |->
         Str([i \in 1..(Len(payload) - 2) |->
                IF payload[i + 1] = EscapedNL THEN NL ELSE payload[i + 1]])])])>>)])
  ELSE Null

\* choices[0].delta.content when it is a string, "" otherwise (lines 1064-1075)
ContentOf(obj) ==
  LET choices == Get(obj, "choices")
      first == IF choices.t = "array" /\ Len(choices.a) >= 1 THEN choices.a[1] ELSE Undef
      delta == IF first.t = "object" THEN Get(first, "delta") ELSE Undef
      raw == IF delta.t = "object" THEN Get(delta, "content") ELSE Undef
  IN IF raw.t = "string" THEN raw.s ELSE << >>

\* what one line yields: "" when the line is skipped (lines 1060-1078)
YieldOf(line) ==
  IF ~(Len(line) >= 2 /\ SubSeq(line, 1, 2) = DataPrefix) THEN << >>
  ELSE LET payload == Trim(SubSeq(line, 3, Len(line)))
       IN IF payload = << >> \/ payload = <<DoneSentinel>> THEN << >>
          ELSE ContentOf(ParseDelta(payload))

\* the response has come back: the reader is taken, buf is empty (lines 1043-1045)
StreamInit ==
  /\ \E evs \in UpstreamStreams :
       reader = [at |-> "read", sent |-> evs, upstream |-> StreamText(evs), buf |-> << >>,
                 lines |-> << >>]
  /\ req = [headers |-> OpenHeaders, body |-> Body(Str(<<"show", SP, "alerts">>), Undef)]
  /\ env \in {e \in PlanEnvironments : e.defaultEarliest = << >>}
  /\ pc = "await_stream"
  /\ http = 200
  /\ frames = <<StatusFrame("explaining")>>
  /\ closed = FALSE
  /\ stage = "explaining"
  /\ plan = defaultPlan(userMsg)
  /\ planObj = Null
  /\ panels = << >>
  /\ origin = << >>
  /\ idx = 1
  /\ seq = 0
  /\ outbound = <<[call |-> "narration", evidence |-> buildEvidenceFromPanels(panels)]>>
  /\ ndeltas = 0
  /\ narration = Returned("streaming")

\* await reader.read() hands over the next bytes, however many (lines 1047-1051)
ReaderRead ==
  /\ pc = "await_stream"
  /\ reader.at = "read"
  /\ reader.upstream # << >>
  /\ \E n \in 1..Len(reader.upstream) :
       reader' = [reader EXCEPT !.at = "scan",
                                !.buf = @ \o SubSeq(reader.upstream, 1, n),
                                !.upstream = SubSeq(@, n + 1, Len(@))]
  /\ UNCHANGED <<req, env, pc, http, frames, closed, stage, plan, panels, origin, idx, seq,
                 outbound, ndeltas, planObj, narration>>

\* the inner loop looks for the next blank line (lines 1053-1059)
ReaderScan ==
  /\ pc = "await_stream"
  /\ reader.at = "scan"
  /\ reader' =
       IF IndexOfBlankLine(reader.buf) = 0
       THEN [reader EXCEPT !.at = "read"]
       ELSE [reader EXCEPT !.at = "lines",
                           !.lines = LinesOf(SubSeq(reader.buf, 1, IndexOfBlankLine(reader.buf) - 1)),
                           !.buf = RestAfter(@, IndexOfBlankLine(@))]
  /\ UNCHANGED <<req, env, pc, http, frames, closed, stage, plan, panels, origin, idx, seq,
                 outbound, ndeltas, planObj, narration>>

\* one line of the event: skipped, or yielded and written as a delta frame
\* (lines 1060-1078 and 1502-1504)
ReaderLine ==
  /\ pc = "await_stream"
  /\ reader.at = "lines"
  /\ IF reader.lines = << >>
     THEN /\ reader' = [reader EXCEPT !.at = "scan"]
          /\ UNCHANGED <<frames, ndeltas>>
     ELSE /\ reader' = [reader EXCEPT !.lines = Tail(@)]
          /\ IF YieldOf(Head(reader.lines)) = << >>
             THEN UNCHANGED <<frames, ndeltas>>
             ELSE /\ frames' = Append(frames, Frame("delta", [text |-> YieldOf(Head(reader.lines))]))
                  /\ ndeltas' = ndeltas + 1
  /\ UNCHANGED <<req, env, pc, http, closed, stage, plan, panels, origin, idx, seq,
                 outbound, planObj, narration>>

\* reader.read() reports the end of the body: the loop ends, done is written
\* (lines 1049, 1505, 1513)
ReaderDone ==
  /\ pc = "await_stream"
  /\ reader.at = "read"
  /\ reader.upstream = << >>
  /\ reader' = [reader EXCEPT !.at = "done"]
  /\ frames' = NarrationDone(frames)
  /\ narration' = Returned("completed")
  /\ closed' = TRUE
  /\ pc' = "closed"
  /\ UNCHANGED <<req, env, http, stage, plan, panels, origin, idx, seq, outbound, ndeltas, planObj>>

StreamNext == ReaderRead \/ ReaderScan \/ ReaderLine \/ ReaderDone \/ StreamTimeout

StreamSpec == StreamInit /\ [][StreamNext]_vars

\* ------------------------------------------------------------------ properties
\* helpers over the frames written so far
LastFrame == frames[Len(frames)]
IsTerminal(f) == f.event \in {"done", "error"}
FramesOf(ev) == {k \in 1..Len(frames) : frames[k].event = ev}
StatusAt(st) == {k \in FramesOf("status") : frames[k].data.stage = st}
QueryingStatus == StatusAt("querying_splunk") \cup StatusAt("querying_mcp")
IsPanelFrame(f) == f.event = "panel"
DataOf(f) == f.data
PanelData == SeqMap(SeqFilter(frames, IsPanelFrame), DataOf)

\* the place of a frame in the stage order: planning status, planning warning,
\* plan, querying status, panel, explaining status, delta, done, error
FrameRank(f) ==
  IF f.event = "status"
  THEN CASE f.data.stage = "planning" -> 1
         [] f.data.stage = "planning_warning" -> 2
         [] f.data.stage \in {"querying_splunk", "querying_mcp"} -> 4
         [] f.data.stage = "explaining" -> 6
         [] OTHER -> 0
  ELSE CASE f.event = "plan" -> 3
         [] f.event = "panel" -> 5
         [] f.event = "delta" -> 7
         [] f.event = "done" -> 8
         [] f.event = "error" -> 9
         [] OTHER -> 0

\* what may follow a frame of rank r: the next frame of the sequence
\* planning, warning?, plan, querying, panel*, explaining, delta*, done; or,
\* while no terminal frame was written, the error frame
RankSucc(r) ==
  CASE r = 1 -> {2, 3, 9}
    [] r = 2 -> {3, 9}
    [] r = 3 -> {4, 9}
    [] r = 4 -> {5, 6, 9}
    [] r = 5 -> {5, 6, 9}
    [] r = 6 -> {7, 8, 9}
    [] r = 7 -> {7, 8, 9}
    [] OTHER -> {}

\* C1: in every run that passes validation the frames written follow the stage
\* order: the planning status first, then at most one warning, one plan frame,
\* the querying status, panels, the explaining status, deltas, done; or a
\* prefix of that followed by one error frame.  Nothing of an earlier stage
\* follows a frame of a later stage.
C1_StageOrder ==
  /\ (http = 200) => (Len(frames) >= 1 /\ FrameRank(frames[1]) = 1)
  /\ (Len(frames) >= 1) => (http = 200 /\ FrameRank(frames[1]) = 1)
  /\ \A k \in 1..(Len(frames) - 1) :
       FrameRank(frames[k + 1]) \in RankSucc(FrameRank(frames[k]))

\* a finished run that went through every stage: warning, plan, two panels,
\* a forwarded increment, done
C1_Witness ==
  /\ closed
  /\ LastFrame.event = "done"
  /\ StatusAt("planning_warning") # {}
  /\ Cardinality(FramesOf("panel")) >= 2
  /\ Cardinality(FramesOf("delta")) >= 1

\* C2: a run writes at most one terminal frame (done or error, never both,
\* never twice), no frame follows it, and the stream is closed exactly when
\* the terminal frame has been written; a run that ended wrote one.
C2_OneTerminalFrameLast ==
  /\ \A k \in 1..Len(frames) : IsTerminal(frames[k]) => k = Len(frames)
  /\ closed <=> (Len(frames) >= 1 /\ IsTerminal(LastFrame))
  /\ closed <=> (pc = "closed")

\* a run closed by an error frame after a panel was delivered
C2_Witness ==
  /\ closed
  /\ LastFrame.event = "error"
  /\ Cardinality(FramesOf("panel")) >= 1
  /\ FramesOf("done") = {}

\* C3: every run that started streaming ends: a done or an error frame is
\* written and the stream is closed, whatever the planner call, the backend
\* call and the narration stream do, a call that never settles included.
C3_NoSilentHang == (http = 200) ~> (closed /\ IsTerminal(LastFrame))

PastPlanning == pc \in {"run_panels", "await_backend", "explain", "await_stream", "closed"}
PlanNonEmpty(p) ==
  IF workspace = "observability" THEN Len(p.requests) >= 1 ELSE Len(p.outputs) >= 1

\* C4: planning never dead-ends.  While the planner call is pending the run
\* can go on and has written neither a plan nor an error frame; once the call
\* has settled, however it did, exactly one plan frame was written, it carries
\* the resolved, non-empty plan, the querying status follows it at once and no
\* error frame belongs to the planning stage.
C4_PlanningNeverDeadEnds ==
  /\ (pc = "planning") => ENABLED CallPlanner
  /\ (pc = "await_planner") => ENABLED PlannerTimeout
  /\ (pc \in {"planning", "await_planner"}) =>
       (~closed /\ FramesOf("plan") = {} /\ FramesOf("error") = {})
  /\ PastPlanning =>
       /\ Cardinality(FramesOf("plan")) = 1
       /\ \A k \in FramesOf("plan") :
            /\ frames[k].data = plan
            /\ PlanNonEmpty(frames[k].data)
            /\ (k + 1) \in QueryingStatus
            /\ \A j \in FramesOf("error") : j > k + 1

\* an observability run whose planner call threw and which still delivered
\* panels and ended with done
C4_Witness ==
  /\ closed
  /\ workspace = "observability"
  /\ StatusAt("planning_warning") # {}
  /\ FramesOf("panel") # {}
  /\ LastFrame.event = "done"

\* the plan in the plan frame is the substituted one: nothing was decoded from
\* the planner, or what was decoded holds no valid request
PlanSubstituted ==
  \/ ~Truthy(planObj)
  \/ /\ workspace = "observability"
     /\ Len(normalizeObservabilityPlan(planObj, userMsg).requests) = 0

\* C5: whenever the plan frame carries the substituted default or fallback
\* plan, a planning_warning status frame was written before it.
C5_WarningPrecedesSubstitutedPlan ==
  \A k \in FramesOf("plan") :
    PlanSubstituted => \E j \in StatusAt("planning_warning") : j < k

BackendCalls == {k \in 1..Len(outbound) : outbound[k].call = "backend"}
NarrationCalls == {k \in 1..Len(outbound) : outbound[k].call = "narration"}
Executable(out) == out.kind # "none" /\ out.template \in allowedTemplate

\* the run ended while the handler's stage was still the querying one
QueryFailed == pc = "closed" /\ stage = "querying_splunk"

\* C6: when the backend call for output idx throws, the run ends with one error
\* frame naming the querying stage; there is no explaining status, delta or
\* done frame and no narration call; no panel exists for output idx or a later
\* one and no backend call was issued beyond the failed one; the panels of the
\* outputs before idx were delivered and stay in the stream.
C6_QueryFailureIsFatal ==
  QueryFailed =>
    /\ closed
    /\ Cardinality(FramesOf("error")) = 1
    /\ LastFrame.event = "error"
    /\ LastFrame.data.stage = "querying_splunk"
    /\ StatusAt("explaining") = {} /\ FramesOf("delta") = {} /\ FramesOf("done") = {}
    /\ NarrationCalls = {}
    /\ Cardinality(BackendCalls) <= Len(panels) + 1
    /\ PanelData = panels
    /\ \A k \in 1..Len(origin) : \A j \in origin[k] : j < idx
    /\ \A j \in 1..(idx - 1) :
         Executable(plan.outputs[j]) => \E k \in 1..Len(origin) : origin[k] = {j}

\* the backend answered for the first output and threw for the second of three
C6_Witness ==
  /\ QueryFailed
  /\ idx = 2
  /\ Len(plan.outputs) >= 3
  /\ Len(panels) = 1
  /\ Cardinality(BackendCalls) = 2

\* C7: when the narration call fails, before or after forwarded increments, the
\* forwarded increments are followed by exactly one fallback delta computed
\* from the delivered panels, then by done with llm_ok false and the error
\* text; there is no error frame and every panel was delivered earlier.  A done
\* frame carries llm_ok true exactly when the stream ran to its end.
C7_NarrationFailureRecovered ==
  /\ narration.threw =>
       /\ Len(frames) >= 2
       /\ LastFrame = Frame("done", [llm_ok |-> FALSE,
                                     llm_error |-> getErrorMessage(narration.err)])
       /\ frames[Len(frames) - 1] =
            Frame("delta", [text |-> fallbackMarkdown(plan.language, PanelData)])
       /\ Cardinality(FramesOf("delta")) = ndeltas + 1
       /\ \A k \in FramesOf("delta") :
            k < Len(frames) - 1 => frames[k].data.text[1] = "increment"
       /\ FramesOf("error") = {}
       /\ PanelData = panels
       /\ \A k \in FramesOf("panel") : \A j \in StatusAt("explaining") : k < j
  /\ \A k \in FramesOf("done") :
       frames[k].data.llm_ok <=> (~narration.threw /\ narration.value = "completed")
  /\ (~narration.threw /\ narration.value = "completed") =>
       (Len(frames) >= 1 /\ LastFrame = Frame("done", [llm_ok |-> TRUE]))

\* the stream broke after an increment was forwarded, panels having been delivered
C7_Witness ==
  /\ narration.threw
  /\ ndeltas >= 1
  /\ Len(panels) >= 1
  /\ closed

\* C8: the panels reach the caller in the order of the plan entries they carry:
\* when entry a stands before entry b in the plan, the panel frame with a's
\* result is not written after the panel frame with b's result.
C8_PanelsInPlanOrder ==
  /\ PanelData = panels
  /\ \A k1 \in 1..Len(origin) : \A k2 \in 1..Len(origin) :
       \A a \in origin[k1] : \A b \in origin[k2] : (a < b) => (k1 <= k2)

\* Reading a query: outside a double-quoted string ("out"), inside one ("in"),
\* or inside one just after a backslash ("esc"), which escapes the next
\* character.  A "|" read outside a string starts a command.
LexStates == {"out", "in", "esc"}

\* what one character does to the reader: the state it leaves and the commands
\* it starts, for each state it may be read in
LexChar(c) ==
  [st \in LexStates |->
     CASE st = "out" -> [st |-> IF c = DQ THEN "in" ELSE "out", n |-> IF c = PIPE THEN 1 ELSE 0]
       [] st = "in" -> [st |-> IF c = BS THEN "esc" ELSE IF c = DQ THEN "out" ELSE "in", n |-> 0]
       [] OTHER -> [st |-> "in", n |-> 0]]

LexThen(f, g) == [st \in LexStates |-> [st |-> g[f[st].st].st, n |-> f[st].n + g[f[st].st].n]]

RECURSIVE Lex(_, _, _)
\* what the characters lo..hi of q do to the reader
Lex(q, lo, hi) ==
  IF lo > hi THEN [st \in LexStates |-> [st |-> st, n |-> 0]]
  ELSE IF lo = hi THEN LexChar(q[lo])
  ELSE LexThen(Lex(q, lo, (lo + hi) \div 2), Lex(q, (lo + hi) \div 2 + 1, hi))

\* the commands of a query: the "|" that stand outside quoted strings
UnquotedPipes(q) == Lex(q, 1, Len(q))["out"].n

HasText(f, k) == HasKey(f, k) /\ Len(f[k]) > 0

\* the commands the templates themselves are made of: three of the base search,
\* two for a tag filter, one for the other filters, and the template's own
TemplateCommands(f, out) ==
  3 + (IF HasText(f, "tags_exact") THEN 2 ELSE 0)
    + (IF \/ HasText(f, "severity_exact") \/ HasText(f, "description_like")
          \/ HasText(f, "details_like") \/ HasText(f, "node_like")
          \/ HasKey(f, "has_network_activity")
       THEN 1 ELSE 0)
    + (CASE out.template = "count" -> 1
         [] out.template = "table" -> 4
         [] out.template = "count_by" ->
              IF HasKey(out, "group_by") /\ out.group_by = "tag" THEN 5 ELSE 3
         [] OTHER -> 3)

\* C9: no text chosen by the model or the user adds syntax to a compiled query:
\* whatever the plan's filters and span hold, the query sent to the backend for
\* an output consists of the commands of its template and of no other, every
\* interpolated text standing escaped inside a quoted string.
C9_QueryKeepsTemplateCommands ==
  (pc = "await_backend") =>
    UnquotedPipes(outbound[Len(outbound)].query)
      = TemplateCommands(plan.filters, plan.outputs[idx])

\* the time bounds the code itself enumerates or falls back to
EnumeratedTimes ==
  {DefaultEarliest, DefaultLatest} \cup {<<t>> : t \in OBSERVABILITY_ALLOWED_TIMES}

OutputEnumerated(o) ==
  /\ o.kind \in allowedKind
  /\ o.template \in allowedTemplate
  /\ HasKey(o, "group_by") => o.group_by \in allowedGroup
  /\ HasKey(o, "split") => o.split \in allowedSplit
  /\ HasKey(o, "limit") => o.limit \in 1..200

\* C10: in a security plan written in a plan frame or handed to panel
\* execution, every field other than the substring filters, the titles and the
\* span holds an enumerated value: the language, the time bounds, the
\* severities, and each output's kind, template, grouping, split and limit;
\* the time bounds sent to the backend are enumerated ones too.
C10_PlanFieldsEnumerated ==
  (workspace = "security") =>
    /\ \A k \in FramesOf("plan") :
         /\ frames[k].data.language \in {"en", "zh"}
         /\ frames[k].data.earliest_time \in EnumeratedTimes
         /\ frames[k].data.latest_time \in EnumeratedTimes
         /\ HasKey(frames[k].data.filters, "severity_exact") =>
              Range(frames[k].data.filters.severity_exact) \subseteq Severities
         /\ \A i \in 1..Len(frames[k].data.outputs) :
              OutputEnumerated(frames[k].data.outputs[i])
    /\ \A k \in BackendCalls :
         /\ outbound[k].earliest_time \in EnumeratedTimes
         /\ outbound[k].latest_time \in EnumeratedTimes

\* ------------------------------------------------- properties of the plan functions
\* the chunks of a user text that carry tag intent: the MITRE / ATT&CK / NIST
\* keywords and the tag tokens
TagIntentChunks ==
  {"mitre", "att&ck", "nist", "attack.txx", "attack.t1611", "attack.t1059.001", "nist.ac-3"}
NoTagIntent(msg) == \A i \in 1..Len(msg) : LowerChunk(msg[i]) \notin TagIntentChunks

\* the plan as it stood before the guardrails, recomputed from the decoded object
PlanBeforeGuardrails ==
  IF Truthy(planObj) THEN normalizePlan(planObj, userMsg) ELSE defaultPlan(userMsg)

\* C11: when the user text carries no tag intent, the security plan that leaves
\* the guardrails has no tags_exact filter, whatever tags the model proposed,
\* and no compiled query has a tag-membership segment.
C11_NoTagFilterWithoutIntent ==
  (workspace = "security" /\ pc = "guarded" /\ NoTagIntent(userMsg)) =>
    /\ ~HasKey(plan.filters, "tags_exact")
    /\ \A k \in 1..Len(outbound) :
         \A i \in 1..Len(outbound[k].query) : outbound[k].query[i] # "mvfind(__tags,"

\* the model proposed valid tags, the text has no tag intent, a query was compiled
C11_Witness ==
  /\ workspace = "security" /\ pc = "guarded" /\ NoTagIntent(userMsg)
  /\ Truthy(planObj)
  /\ HasKey(PlanBeforeGuardrails.filters, "tags_exact")
  /\ Len(outbound) > 0

\* the entries of the decoded object's outputs, as the model wrote them
RawOutputs ==
  IF Get(planObj, "outputs").t = "array" THEN Get(planObj, "outputs").a ELSE << >>

\* a value that is no string, or a string of white space only
Blank(v) == v.t # "string" \/ \A i \in 1..Len(v.s) : v.s[i] = SP

\* a value whose string form is none of the words of an enumeration
Unknown(v, allowed) == \A k \in allowed : ToStr(v) # <<k>>

\* one normalized output against the entry it was read from
OutputDefaultsHold(raw, out) ==
  /\ out.kind \in allowedKind
  /\ out.template \in allowedTemplate
  /\ Unknown(Get(raw, "template"), allowedTemplate) => out.template = "table"
  /\ Blank(Get(raw, "title")) => out.title = <<"Result">>
  /\ out.template = "count_by" =>
       /\ out.group_by \in allowedGroup
       /\ Unknown(Get(raw, "group_by"), allowedGroup) => out.group_by = "Severity"
  /\ out.template = "trend" =>
       /\ out.split \in allowedSplit
       /\ Unknown(Get(raw, "split"), allowedSplit) => out.split = "none"
       /\ Blank(Get(raw, "span")) => out.span = <<"5m">>

\* every entry has its output, every output its defaults, no foreign severity
NormalizedDefaults ==
  /\ Len(plan.outputs) = Len(RawOutputs)
  /\ \A i \in 1..Len(RawOutputs) : OutputDefaultsHold(RawOutputs[i], plan.outputs[i])
  /\ HasKey(plan.filters, "severity_exact") =>
       \A i \in 1..Len(plan.filters.severity_exact) :
         plan.filters.severity_exact[i] \in {"CRITICAL", "WARNING", "INFO"}

HeadClause(q, n) ==
  /\ \E i \in 1..(Len(q) - 2) : q[i] = PIPE /\ q[i + 1] = " head " /\ q[i + 2] = Numeral(n)
  /\ \A i \in 1..(Len(q) - 1) : q[i] = " head " => q[i + 1] = Numeral(n)

LimitInRange(out) ==
  /\ out.template = "count_by" => out.limit \in 3..50
  /\ out.template = "table" => out.limit \in 5..200

\* C13: whatever the model wrote under limit, the limit of a count_by output is
\* in [3,50] and that of a table output in [5,200] (0 gives 3 and 9999 gives 50
\* for count_by), and the compiled query's head clause and the row_limit of the
\* backend call both carry that same value.
C13_LimitClampedAndCarried ==
  (workspace = "security" /\ pc \in {"normalized", "guarded"}) =>
    /\ \A i \in 1..Len(plan.outputs) : LimitInRange(plan.outputs[i])
    /\ (pc = "normalized" /\ Truthy(planObj)) =>
         \A i \in 1..Len(RawOutputs) :
           plan.outputs[i].template = "count_by" =>
             /\ Get(RawOutputs[i], "limit") = Num(0) => plan.outputs[i].limit = 3
             /\ Get(RawOutputs[i], "limit") = Num(9999) => plan.outputs[i].limit = 50
    /\ \A k \in 1..Len(outbound) :
         plan.outputs[k].template \in {"count_by", "table"} =>
           /\ outbound[k].row_limit = plan.outputs[k].limit
           /\ HeadClause(outbound[k].query, plan.outputs[k].limit)

\* the model asked for 9999 rows in a table and a distribution; both were compiled
C13_Witness ==
  /\ workspace = "security" /\ pc = "guarded" /\ Truthy(planObj)
  /\ Len(RawOutputs) = 2 /\ Len(outbound) = 2
  /\ Get(RawOutputs[1], "limit") = Num(9999) /\ plan.outputs[1].limit = 200
  /\ Get(RawOutputs[2], "limit") = Num(9999) /\ plan.outputs[2].limit = 50

\* a limit that is absent or is no numeric value: undefined, null, a boolean,
\* an array, an object, or a string that spells no number (the empty one included)
NotNumeric(v) ==
  \/ v.t \in {"undefined", "null", "boolean", "array", "object"}
  \/ v.t = "string" /\ \A k \in KnownNumbers : SeqFilter(v.s, LAMBDA c : c # SP) # <<Numeral(k)>>

\* C14: when the limit the model wrote is absent or is no numeric value, the
\* normalized limit is the default of the template: 10 for count_by, 50 for table.
C14_NonNumericLimitIsDefault ==
  (workspace = "security" /\ pc = "normalized" /\ Truthy(planObj)) =>
    \A i \in 1..Len(RawOutputs) :
      NotNumeric(Get(RawOutputs[i], "limit")) =>
        /\ plan.outputs[i].template = "count_by" => plan.outputs[i].limit = 10
        /\ plan.outputs[i].template = "table" => plan.outputs[i].limit = 50

\* the outputs that went into the guardrails
OutputsBefore == PlanBeforeGuardrails.outputs

NothingToShow(outputs) == \A i \in 1..Len(outputs) : outputs[i].kind = "none"

\* C15: after ensureGuardrails, for the normalized plan of any decoded object
\* and for the default plan, the outputs are between one and four and one of
\* them has a kind other than none; an empty or all-none list has become the
\* single default table, any other list its own first four entries, in order.
C15_OutputsOneToFour ==
  (workspace = "security" /\ pc = "guarded") =>
    /\ Len(plan.outputs) \in 1..4
    /\ \E i \in 1..Len(plan.outputs) : plan.outputs[i].kind # "none"
    /\ NothingToShow(OutputsBefore) =>
         plan.outputs = <<[kind |-> "table", title |-> <<"Events">>, template |-> "table",
                           limit |-> 50]>>
    /\ ~NothingToShow(OutputsBefore) =>
         /\ Len(plan.outputs) = IF Len(OutputsBefore) > 4 THEN 4 ELSE Len(OutputsBefore)
         /\ \A i \in 1..Len(plan.outputs) : plan.outputs[i] = OutputsBefore[i]

\* six outputs went in and four came out
C15_Witness ==
  /\ workspace = "security" /\ pc = "guarded"
  /\ Len(OutputsBefore) = 6 /\ Len(plan.outputs) = 4

\* an empty list went in and the default table came out
C15_WitnessEmpty ==
  /\ workspace = "security" /\ pc = "guarded" /\ Truthy(planObj)
  /\ Len(OutputsBefore) = 0 /\ Len(plan.outputs) = 1

\* ---------------------------------------------- properties of the observability plan
\* the five combinations of (mcp, tool, target, metric, viz) the service offers
AllowedTuples ==
  {<<"grafana", "query_dashboard_timeseries", "vllm-dashboard", "success_count_per_minute", "line">>,
   <<"grafana", "query_dashboard_timeseries", "hubble-l7-http-metrics-by-workload",
     "success_rate", "line">>,
   <<"grafana", "query_dashboard_timeseries", "nvidia-dcgm-exporter-dashboard",
     "gpu_utilization", "line">>,
   <<"hubble", "fetch_flow_metrics", "ai-serving/foundation-instruct-vllm",
     "policy_drop_flows", "network">>,
   <<"ndi", "fetch_anomalies", "default-cluster", "anomaly_events", "network">>}

\* a field as the model wrote it: its word, or nothing when it is no plain word
FieldWord(v) == IF v.t = "string" /\ Len(v.s) = 1 THEN v.s[1] ELSE ""
RawTuple(r) ==
  <<FieldWord(Get(r, "mcp")), FieldWord(Get(r, "tool")), FieldWord(Get(r, "target")),
    FieldWord(Get(r, "metric")), FieldWord(Get(r, "viz"))>>
TupleOf(q) == <<q.mcp, q.tool, q.target, q.metric, q.viz>>

\* the entries of the decoded object's requests, as the model wrote them
RawRequests ==
  IF Get(planObj, "requests").t = "array" THEN Get(planObj, "requests").a ELSE << >>

\* the tuples of the entries that are allowed combinations, in the model's order
AllowedInOrder ==
  SeqFilter([i \in 1..Len(RawRequests) |-> RawTuple(RawRequests[i])],
            LAMBDA t : t \in AllowedTuples)

\* C16: normalizeObservabilityPlan keeps a request exactly when its tuple is
\* one of the five allowed combinations, as written and never repaired, keeps
\* the model's order and cuts the list to its first three.
C16_StrictAllowList ==
  (workspace = "observability" /\ pc = "normalized" /\ Truthy(planObj)) =>
    /\ Len(plan.requests) = IF Len(AllowedInOrder) > 3 THEN 3 ELSE Len(AllowedInOrder)
    /\ \A i \in 1..Len(plan.requests) : TupleOf(plan.requests[i]) = AllowedInOrder[i]

\* of six requests four were allowed and three were kept
C16_Witness ==
  /\ workspace = "observability" /\ pc = "normalized" /\ Truthy(planObj)
  /\ Len(RawRequests) = 6 /\ Len(AllowedInOrder) = 4 /\ Len(plan.requests) = 3

\* of several entries exactly one was an allowed combination, and it alone was kept
C16_WitnessOneValid ==
  /\ workspace = "observability" /\ pc = "normalized" /\ Truthy(planObj)
  /\ Len(RawRequests) > 1 /\ Len(AllowedInOrder) = 1 /\ Len(plan.requests) = 1

\* an observability plan of the documented form
WellFormedObservabilityPlan(p) ==
  /\ p.earliest_time \in {<<"-15m">>, <<"-30m">>, <<"-60m">>}
  /\ p.latest_time = <<"now">>
  /\ Len(p.requests) \in 1..3
  /\ \A i \in 1..Len(p.requests) : TupleOf(p.requests[i]) \in AllowedTuples

\* C17: in the observability workspace the plan written in the plan frame and
\* the plan that is executed have an earliest_time of -15m, -30m or -60m, the
\* latest_time now, and one to three requests, each an allowed combination.
C17_ObservabilityPlanWellFormed ==
  workspace = "observability" =>
    /\ \A k \in FramesOf("plan") : WellFormedObservabilityPlan(frames[k].data)
    /\ (PastPlanning /\ plan # NoPlan) => WellFormedObservabilityPlan(plan)

\* the model's answer held a request that is no allowed combination; the plan
\* was written and its panels were produced
C17_Witness ==
  /\ workspace = "observability"
  /\ Truthy(planObj) /\ Len(AllowedInOrder) < Len(RawRequests)
  /\ FramesOf("plan") # {} /\ FramesOf("panel") # {}

\* the keywords of the four intents, lower-cased
IntentWords(intent) ==
  CASE intent = "anomaly" -> {"zh:tongxinyichang", "anomaly", "abnormal", "drop"}
    [] intent = "success_rate" -> {"zh:chenggonglv", "success rate"}
    [] intent = "gpu" -> {"gpu"}
    [] intent = "success_count" -> {"zh:chenggongcishu", "success count"}
HasIntentWord(msg, intent) ==
  \E i \in 1..Len(msg) : LowerChunk(msg[i]) \in IntentWords(intent)

\* the canonical request set of each intent, as (mcp, tool, target, metric, viz)
CanonicalTuples(intent) ==
  CASE intent = "anomaly" ->
         << <<"hubble", "fetch_flow_metrics", "ai-serving/foundation-instruct-vllm",
              "policy_drop_flows", "network">>,
            <<"ndi", "fetch_anomalies", "default-cluster", "anomaly_events", "network">> >>
    [] intent = "success_rate" ->
         << <<"grafana", "query_dashboard_timeseries", "hubble-l7-http-metrics-by-workload",
              "success_rate", "line">> >>
    [] intent = "gpu" ->
         << <<"grafana", "query_dashboard_timeseries", "nvidia-dcgm-exporter-dashboard",
              "gpu_utilization", "line">> >>
    [] intent = "success_count" ->
         << <<"grafana", "query_dashboard_timeseries", "vllm-dashboard",
              "success_count_per_minute", "line">> >>

ResolvedTuples == [i \in 1..Len(plan.requests) |-> TupleOf(plan.requests[i])]

\* the plan as it stood before the intent override
PlanBeforeOverride == OrFallback(ObservabilityPlanFrom(planObj, userMsg), userMsg)

\* the override leaves the language and the time range as they were
RangeAsResolved ==
  /\ plan.language = PlanBeforeOverride.language
  /\ plan.earliest_time = PlanBeforeOverride.earliest_time
  /\ plan.latest_time = PlanBeforeOverride.latest_time

\* the intents that come before a given one when the text is examined
IntentsBefore(intent) ==
  CASE intent = "anomaly" -> {}
    [] intent = "success_rate" -> {"anomaly"}
    [] intent = "gpu" -> {"anomaly", "success_rate"}
    [] intent = "success_count" -> {"anomaly", "success_rate", "gpu"}

\* C18 as stated: in the observability workspace, when the user text contains
\* the keyword of one of the four intents, the requests of the resolved plan
\* are exactly the canonical request set of that intent, whatever the model
\* answered; language and time range stay as resolved.
C18_IntentOverridesModel ==
  (workspace = "observability" /\ pc = "guarded") =>
    \A intent \in {"anomaly", "success_rate", "gpu", "success_count"} :
      HasIntentWord(userMsg, intent) =>
        (ResolvedTuples = CanonicalTuples(intent) /\ RangeAsResolved)

\* C18 as amended: when the text contains keywords of several intents, the
\* intent is the first of anomaly, success-rate, GPU, success-count that has a
\* keyword in the text, and the requests are the canonical set of that one.
C18_FirstIntentOverridesModel ==
  (workspace = "observability" /\ pc = "guarded") =>
    \A intent \in {"anomaly", "success_rate", "gpu", "success_count"} :
      (HasIntentWord(userMsg, intent)
         /\ \A other \in IntentsBefore(intent) : ~HasIntentWord(userMsg, other)) =>
        (ResolvedTuples = CanonicalTuples(intent) /\ RangeAsResolved)

\* a text with a GPU and an anomaly keyword, and a model answer with allowed
\* requests other than those the plan ends with
C18_Witness ==
  /\ workspace = "observability" /\ pc = "guarded" /\ Truthy(planObj)
  /\ HasIntentWord(userMsg, "gpu") /\ HasIntentWord(userMsg, "anomaly")
  /\ Len(AllowedInOrder) > 0
  /\ ResolvedTuples = CanonicalTuples("anomaly")
  /\ \A i \in 1..Len(AllowedInOrder) : AllowedInOrder[i] \notin Range(ResolvedTuples)

\* ------------------------------------------------- properties of failing calls
\* C19: a missing setting is fatal and has no fallback.  When the run has ended
\* and the language-model endpoint was missing, the last frame is an error
\* frame naming the planning stage and no plan, delta or done frame was written;
\* when a backend setting was missing, the last frame is an error frame naming
\* the querying stage and no delta or done frame was written.
C19_ConfigurationErrorsFatal ==
  (http = 200 /\ pc = "closed") =>
    /\ ~env.qwen =>
         /\ LastFrame.event = "error" /\ LastFrame.data.stage = "planning"
         /\ FramesOf("plan") = {} /\ FramesOf("delta") = {} /\ FramesOf("done") = {}
    /\ (env.qwen /\ workspace = "security" /\ env.splunk # "ok") =>
         /\ LastFrame.event = "error" /\ LastFrame.data.stage = "querying_splunk"
         /\ FramesOf("delta") = {} /\ FramesOf("done") = {}

\* the frames that report a failure to the caller, and the message they carry
IsReport(f) ==
  \/ f.event = "error"
  \/ f.event = "done" /\ ~f.data.llm_ok
  \/ f.event = "status" /\ f.data.stage = "planning_warning"
ReportMessage(f) == IF f.event = "done" THEN f.data.llm_error ELSE f.data.message

\* the frames written by the step being taken
TimeoutReportWritten ==
  \E k \in (Len(frames) + 1)..Len(frames') :
    IsReport(frames'[k]) /\ ReportMessage(frames'[k]) = "Request aborted by timeout"

\* C20: a step in which the timer of an outbound call cancels it writes a
\* report frame (planning_warning status, failed done, or error) that carries
\* the message 'Request aborted by timeout', and no other step writes that message.
C20_TimeoutMessageDistinguished ==
  [][(PlannerTimeout \/ StreamTimeout) <=> TimeoutReportWritten]_vars

\* --------------------------------------------------- properties of the entry check
\* a header value without its white space
Unspaced(s) == SeqFilter(s, LAMBDA c : c # SP)

\* the token a request presents: that of a bearer authorization header when
\* there is one, else that of the x-app-token header
PresentedToken(h) ==
  IF Len(h.authorization) >= 2 /\ h.authorization[1] \in {"Bearer", "bearer", "BEARER"}
       /\ h.authorization[2] = SP
  THEN Unspaced(Tail(h.authorization))
  ELSE Unspaced(h.xAppToken)

\* C21: with an access token configured, a request whose presented token is
\* missing or different is answered 401 before any stage begins, with no frame
\* and no outbound call; with none configured no request is answered 401.
C21_UnauthorizedBeforeAnyStage ==
  (pc # "request") =>
    /\ (Unspaced(env.appToken) # << >> /\ PresentedToken(req.headers) # Unspaced(env.appToken)) =>
         (http = 401 /\ pc = "rejected" /\ frames = << >> /\ outbound = << >> /\ ~closed)
    /\ Unspaced(env.appToken) = << >> => http # 401

\* a request with a wrong bearer token and the right x-app-token was rejected
C21_Witness ==
  /\ pc = "rejected" /\ http = 401
  /\ req.headers.authorization # << >>
  /\ req.headers.xAppToken = env.appToken

\* without a configured token a request that presents one went through
C21_WitnessOpen ==
  /\ env.appToken = << >> /\ req.headers.xAppToken # << >> /\ http = 200 /\ closed

\* ------------------------------------------------ properties of the evidence
\* the evidence of the last narration call, one item per panel
EvidenceBuilt == outbound[Len(outbound)].evidence

\* the rows, points or topology rows a panel holds and its evidence item carries
PanelSize(p) ==
  CASE p.kind = "single" -> 1
    [] p.kind \in {"bar", "pie", "line"} -> Len(p.data)
    [] OTHER -> Len(p.rows)
EvidenceSize(item) ==
  CASE item.kind = "single" -> 1
    [] item.kind \in {"bar", "pie"} -> Len(item.top)
    [] item.kind = "line" -> Len(item.tail)
    [] item.kind = "table" -> Len(item.sample)
    [] OTHER -> Len(item.rows)

\* the caps of the three kinds that are cut
EvidenceWithinCaps(item) ==
  /\ item.kind \in {"bar", "pie"} => Len(item.top) <= 10
  /\ item.kind = "line" => Len(item.tail) <= 12
  /\ item.kind = "table" => Len(item.sample) <= 6

RECURSIVE ReadLiteral(_, _)
\* the standard reading of a string literal of q from position i, just after
\* its opening quote: a backslash makes the next character literal, the first
\* bare quote closes.  [text: the characters read, next: the place after the
\* closing quote (0: the literal never closes)]
ReadLiteral(q, i) ==
  IF i > Len(q) THEN [text |-> << >>, next |-> 0]
  ELSE IF q[i] = DQ THEN [text |-> << >>, next |-> i + 1]
  ELSE IF q[i] = BS /\ i < Len(q)
  THEN [text |-> <<q[i + 1]>> \o ReadLiteral(q, i + 2).text, next |-> ReadLiteral(q, i + 2).next]
  ELSE [text |-> <<q[i]>> \o ReadLiteral(q, i + 1).text, next |-> ReadLiteral(q, i + 1).next]

\* how many quotes and backslashes a string holds
Specials(s) == Len(SeqFilter(s, LAMBDA c : c \in {DQ, BS}))

\* where the literal of the Description filter opens in a query
DescriptionLiteralAt(q) == (CHOOSE i \in 1..Len(q) : q[i] = "like(Description, ") + 2

\* the filter value the model wrote
FilterValueWritten == Get(Get(planObj, "filters"), "description_like").s

\* C23: escapeSplString escapes once (every backslash and every double quote
\* gains one backslash, nothing else changes) and the standard unescape gives
\* the original back; in the compiled query the filter value is one string
\* literal: read from its opening quote it yields %value% and closes right
\* before the closing parenthesis, and the query has no command beyond the
\* template's own.
C23_EscapeRoundTrip ==
  (workspace = "security" /\ pc = "guarded" /\ Len(outbound) > 0
     /\ HasText(plan.filters, "description_like")) =>
    /\ Len(escapeSplString(plan.filters.description_like))
         = Len(plan.filters.description_like) + Specials(plan.filters.description_like)
    /\ ReadLiteral(escapeSplString(plan.filters.description_like) \o <<DQ>>, 1).text
         = plan.filters.description_like
    /\ \A k \in 1..Len(outbound) :
         /\ \E i \in 1..Len(outbound[k].query) : outbound[k].query[i] = "like(Description, "
         /\ ReadLiteral(outbound[k].query, DescriptionLiteralAt(outbound[k].query)).text
              = <<"%">> \o plan.filters.description_like \o <<"%">>
         /\ ReadLiteral(outbound[k].query, DescriptionLiteralAt(outbound[k].query)).next # 0
         /\ outbound[k].query[ReadLiteral(outbound[k].query,
                                          DescriptionLiteralAt(outbound[k].query)).next] = ")"
         /\ UnquotedPipes(outbound[k].query) = TemplateCommands(plan.filters, plan.outputs[k])

\* a value with a backslash, a quote and a pipe was compiled into a query
C23_Witness ==
  /\ workspace = "security" /\ pc = "guarded" /\ Len(outbound) > 0 /\ Truthy(planObj)
  /\ FilterValueWritten = <<BS, DQ, PIPE>>
  /\ plan.filters.description_like = FilterValueWritten

\* ---- properties of the output kinds ----

\* the kind a template forces; raw is the entry of the model's answer
KindOfTemplate(template, raw) ==
  CASE template = "count" -> "single"
    [] template = "table" -> "table"
    [] template = "trend" -> "line"
    [] template = "count_by" -> IF ToStr(Get(raw, "kind")) = <<"pie">> THEN "pie" ELSE "bar"

\* the plan held in the run is a prefix of the normalized outputs of the answer
OutputsFromAnswer ==
  /\ Truthy(planObj)
  /\ pc \in {"normalized", "guarded", "compiled"} \/ PastPlanning
  /\ pc = "normalized" \/ ~NothingToShow(OutputsBefore)

\* every backend call of the run has come back with rows
QueriesSucceeded ==
  pc \in {"explain", "await_stream"} \/ (pc = "closed" /\ FramesOf("done") # {})

\* C24: in the security workspace every output normalized from the model's
\* answer has the kind of its template (count single, table table, trend line,
\* count_by pie when the model said pie and bar otherwise), never none; and a
\* run whose backend calls all succeeded has written one panel frame per plan
\* output, the i-th for output i.
C24_KindFollowsTemplate ==
  workspace = "security" =>
    /\ OutputsFromAnswer =>
         \A i \in 1..Len(plan.outputs) :
           /\ plan.outputs[i].template \in allowedTemplate
           /\ plan.outputs[i].kind = KindOfTemplate(plan.outputs[i].template, RawOutputs[i])
           /\ plan.outputs[i].kind # "none"
    /\ QueriesSucceeded =>
         /\ Cardinality(FramesOf("panel")) = Len(plan.outputs)
         /\ Len(origin) = Len(plan.outputs)
         /\ \A i \in 1..Len(origin) : origin[i] = {i}

\* the model proposed a pie for a count_by output and no kind for a trend
\* output; the run went through and wrote its done frame
C24_Witness ==
  /\ workspace = "security" /\ OutputsFromAnswer
  /\ pc = "closed" /\ FramesOf("done") # {}
  /\ \E i \in 1..Len(plan.outputs) :
       plan.outputs[i].template = "count_by" /\ plan.outputs[i].kind = "pie"
  /\ \E i \in 1..Len(plan.outputs) :
       plan.outputs[i].template = "trend" /\ Get(RawOutputs[i], "kind") = Undef

\* ---- properties of the network-activity flag ----

NetworkWords == {"network activity", "egress", "ingress", "zh:wangluo"}
HasNetworkWord(msg) == \E w \in NetworkWords : Includes(ToLower(msg), w)

\* what the model put under filters.has_network_activity (undefined on the
\* default-plan path)
RawNetworkFlag ==
  IF Truthy(planObj) THEN Get(Get(planObj, "filters"), "has_network_activity") ELSE Undef

\* C25: in the resolved security plan a boolean has_network_activity of the
\* model is kept as it is; otherwise the flag is true when the user text holds
\* a network-activity keyword and absent when it holds none, on the default-plan
\* path too.
C25_NetworkActivityGuardrail ==
  (workspace = "security" /\ pc \in {"guarded", "compiled"}) =>
    IF RawNetworkFlag.t = "boolean"
    THEN /\ HasKey(plan.filters, "has_network_activity")
         /\ plan.filters.has_network_activity = RawNetworkFlag.b
    ELSE IF HasNetworkWord(userMsg)
    THEN /\ HasKey(plan.filters, "has_network_activity")
         /\ plan.filters.has_network_activity = TRUE
    ELSE ~HasKey(plan.filters, "has_network_activity")

\* the user asked about egress and the model had set the flag to false
C25_Witness ==
  /\ workspace = "security" /\ pc = "guarded"
  /\ HasNetworkWord(userMsg)
  /\ RawNetworkFlag = Bool(FALSE)
  /\ plan.filters.has_network_activity = FALSE

\* the keyword is there and the model left the flag unset, or there was no answer
C25_WitnessUnset ==
  /\ workspace = "security" /\ pc = "guarded"
  /\ HasNetworkWord(userMsg)
  /\ RawNetworkFlag.t # "boolean"
  /\ plan.filters.has_network_activity = TRUE

\* no keyword and the model had set the flag to true
C25_WitnessKept ==
  /\ workspace = "security" /\ pc = "guarded"
  /\ ~HasNetworkWord(userMsg)
  /\ RawNetworkFlag = Bool(TRUE)

\* ---- properties of the narration stream ----

IsDeltaFrame(f) == f.event = "delta"
DeltaFrames == SeqFilter(frames, IsDeltaFrame)

\* the non-empty contents carried by a sequence of events, in order
RECURSIVE Increments(_)
Increments(evs) ==
  IF evs = << >> THEN << >>
  ELSE LET c == Head(evs).content
       IN [i \in 1..Cardinality({k \in 1..Len(c) : c[k] # << >>}) |->
             c[CHOOSE k \in 1..Len(c) :
                 c[k] # << >> /\ Cardinality({j \in 1..k : c[j] # << >>}) = i]]
          \o Increments(Tail(evs))

\* the events whose last byte has been handed to the reader
EventsDelivered ==
  LET got == Len(StreamText(reader.sent)) - Len(reader.upstream)
      whole == {k \in 0..Len(reader.sent) : Len(StreamText(SubSeq(reader.sent, 1, k))) <= got}
  IN SubSeq(reader.sent, 1, CHOOSE k \in whole : \A j \in whole : j <= k)

\* the delta frames that relay the stream: all of them, but for the fallback
\* narration the catch writes last
RelayedCount == IF narration.threw THEN Len(DeltaFrames) - 1 ELSE Len(DeltaFrames)

\* C26: the delta frames that relay the narration stream are, in order and one
\* frame per increment, the non-empty contents of the events sent, whatever the
\* chunks the bytes arrive in: at any time they are a prefix of them; whenever
\* the reader asks for the next chunk they are those of every event delivered
\* in full; when the stream has ended they are those of all events.
C26_DeltasFollowStream ==
  reader.at # "none" =>
    /\ RelayedCount <= Len(Increments(reader.sent))
    /\ \A i \in 1..RelayedCount : DeltaFrames[i].data.text = Increments(reader.sent)[i]
    /\ (reader.at = "read" /\ ~narration.threw) =>
         RelayedCount = Len(Increments(EventsDelivered))
    /\ narration = Returned("completed") =>
         RelayedCount = Len(Increments(reader.sent))

\* one delta has been relayed and the reader asks for the next chunk while it
\* holds the first bytes of an event whose blank line has not arrived
C26_Witness ==
  /\ reader.at = "read" /\ pc = "await_stream"
  /\ ndeltas >= 1
  /\ reader.buf # << >> /\ reader.upstream # << >>
  /\ Len(Increments(reader.sent)) > ndeltas

\* a stream of three increments, one of them with a blank line in its text, was
\* relayed to its end
C26_WitnessCompleted ==
  /\ narration = Returned("completed")
  /\ Len(DeltaFrames) = 3
  /\ \E i \in 1..3 : DeltaFrames[i].data.text = <<"a", NL, NL, "b">>

\* ---- properties of the outbound calls ----

\* the handler is suspended on an outbound call
Awaiting(at) == at \in {"await_planner", "await_backend", "await_stream"}
PlannerCalls == {k \in 1..Len(outbound) : outbound[k].call = "planner"}

\* the step issues one outbound call
Issues(kind) ==
  /\ Len(outbound') = Len(outbound) + 1
  /\ outbound'[Len(outbound')].call = kind

\* C27: outbound calls are sequential and never repeated.  A step issues at
\* most one call, and only when no call is in flight; the call is then in
\* flight.  The planner call is the first call of the run.  The backend call of
\* output idx is issued when the panel frames of the idx - 1 outputs before it
\* are written and as many backend calls were made, and it is the call of that
\* output.  The narration call is issued once, after every output of a
\* security plan has had its one backend call and its panel frame.
C27_CallsSequentialOnce ==
  [][/\ outbound' = outbound \/ Len(outbound') = Len(outbound) + 1
     /\ SubSeq(outbound', 1, Len(outbound)) = outbound
     /\ outbound' # outbound => ~Awaiting(pc) /\ Awaiting(pc')
     /\ Issues("planner") => outbound = << >>
     /\ Issues("backend") =>
          /\ workspace = "security" /\ NarrationCalls = {}
          /\ Cardinality(BackendCalls) = idx - 1
          /\ Cardinality(FramesOf("panel")) = idx - 1
          /\ outbound'[Len(outbound')] = BackendCallFor(plan, plan.outputs[idx])
     /\ Issues("narration") =>
          /\ NarrationCalls = {}
          /\ Cardinality(PlannerCalls) <= 1
          /\ workspace = "security" =>
               /\ Cardinality(BackendCalls) = Len(plan.outputs)
               /\ Cardinality(FramesOf("panel")) = Len(plan.outputs)
               /\ idx = Len(plan.outputs) + 1]_vars

\* a security run that made the planner call, two backend calls or more and
\* the narration call, and wrote its done frame
C27_Witness ==
  /\ workspace = "security" /\ pc = "closed" /\ FramesOf("done") # {}
  /\ Len(outbound) >= 4
  /\ outbound[1].call = "planner"
  /\ Cardinality(BackendCalls) >= 2
  /\ Cardinality(NarrationCalls) = 1

\* ---- properties of the tag filter ----

\* the chunks of a text that are attack.tNNNN[.NNN] or nist.* tokens, lower-cased
TagTokenChunks == {"attack.t1611", "attack.t1059.001", "nist.ac-3"}
TextTokens(msg) == {LowerChunk(msg[i]) : i \in 1..Len(msg)} \cap TagTokenChunks

\* C28: the tag filter of the resolved security plan depends on the user text
\* only.  tags_exact is present exactly when the text holds a tag token; it
\* then lists the lower-cased tokens of the text, each once and each a slug,
\* and nothing else, whatever the model's answer was.
C28_TagsFromUserTextOnly ==
  (workspace = "security" /\ pc \in {"guarded", "compiled"}) =>
    /\ HasKey(plan.filters, "tags_exact") <=> TextTokens(userMsg) # {}
    /\ HasKey(plan.filters, "tags_exact") =>
         /\ Range(plan.filters.tags_exact) = {<<c>> : c \in TextTokens(userMsg)}
         /\ Len(plan.filters.tags_exact) = Cardinality(TextTokens(userMsg))
         /\ \A i \in 1..Len(plan.filters.tags_exact) : IsSlug(plan.filters.tags_exact[i])

\* the text holds tokens and the model proposed other valid tags
C28_Witness ==
  /\ workspace = "security" /\ pc = "guarded"
  /\ TextTokens(userMsg) # {}
  /\ Truthy(planObj)
  /\ HasKey(PlanBeforeGuardrails.filters, "tags_exact")
  /\ PlanBeforeGuardrails.filters.tags_exact # plan.filters.tags_exact
  /\ HasKey(plan.filters, "tags_exact")

\* ---- properties of the error frame ----

\* the stage announced by the last status frame before frame k that is no warning
AnnouncedBefore(k) ==
  LET st == {j \in FramesOf("status") : j < k /\ frames[j].data.stage # "planning_warning"}
  IN IF st = {} THEN "none"
     ELSE frames[CHOOSE j \in st : \A i \in st : i <= j].data.stage

\* the call of the backend for output idx has thrown: a setting was missing,
\* or the request went out and failed
BackendCallThrew ==
  /\ idx <= Len(plan.outputs)
  /\ Cardinality(FramesOf("panel")) = idx - 1
  /\ \/ resolveSplunkMcpConfig(env).threw /\ Cardinality(BackendCalls) = idx - 1
     \/ /\ ~resolveSplunkMcpConfig(env).threw /\ Cardinality(BackendCalls) = idx
        /\ outbound[Len(outbound)] = BackendCallFor(plan, plan.outputs[idx])

\* C29: an error frame is written only by a security run whose backend call
\* threw in the querying stage: its stage is querying_splunk, the stage of the
\* last status frame that is no warning; no explaining status and no delta frame
\* is in the stream, and no narration call was made.  A run of the
\* observability workspace writes no error frame and ends with a done frame.
C29_ErrorOnlyFromQuerying ==
  /\ \A k \in FramesOf("error") :
       /\ workspace = "security"
       /\ k = Len(frames) /\ closed
       /\ frames[k].data.stage = "querying_splunk"
       /\ frames[k].data.stage = AnnouncedBefore(k)
       /\ StatusAt("explaining") = {} /\ FramesOf("delta") = {}
       /\ NarrationCalls = {}
       /\ BackendCallThrew
  /\ (workspace = "observability" /\ closed) => LastFrame.event = "done"

\* the second backend call of a security run failed after a planning warning
C29_Witness ==
  /\ workspace = "security" /\ FramesOf("error") # {}
  /\ StatusAt("planning_warning") # {}
  /\ Cardinality(BackendCalls) = 2 /\ Cardinality(FramesOf("panel")) = 1

\* an observability run has ended
C29_WitnessObservability ==
  /\ workspace = "observability" /\ closed /\ FramesOf("panel") # {}
  /\ narration.threw

\* ---- properties of the two defaulting paths ----

Languages == {"en", "zh"}

\* the planner gave no object, or an object without any allowed request
FallbackTaken == ~Truthy(planObj) \/ AllowedInOrder = << >>

\* the fallback plan and the canonical requests agree for the language lang,
\* and a resolved plan that came from the fallback shows it
PathsAgreeFor(lang) ==
  /\ fallbackObservabilityPlan(userMsg).requests
       = buildObservabilityRequest(detectObservabilityIntent(userMsg), lang)
  /\ (pc = "guarded" /\ FallbackTaken) =>
       /\ plan.requests = buildObservabilityRequest(detectObservabilityIntent(userMsg), lang)
       /\ enforceObservabilityIntent(fallbackObservabilityPlan(userMsg), userMsg)
            = fallbackObservabilityPlan(userMsg)
       /\ plan = fallbackObservabilityPlan(userMsg)

\* C30 as stated: for every user text and every language the requests of the
\* fallback plan are the canonical requests of the detected intent in that
\* language, the success-count request for an unknown intent.
C30_DefaultingPathsAgree ==
  workspace = "observability" => \A lang \in Languages : PathsAgreeFor(lang)

\* C30, amended: for every user text the requests of the fallback plan are the
\* canonical requests of the detected intent in the language detected from the
\* text, the success-count request for an unknown intent; a plan resolved
\* without a valid request of the model is the fallback plan, and the intent
\* override leaves it as it is.
C30_DefaultingPathsAgreeOnTextLanguage ==
  workspace = "observability" => PathsAgreeFor(detectLanguage(userMsg))

\* the model answered with an object that holds no allowed request, the text
\* has no intent keyword, and the plan is the success-count fallback
C30_Witness ==
  /\ workspace = "observability" /\ pc = "guarded"
  /\ Truthy(planObj) /\ AllowedInOrder = << >>
  /\ detectObservabilityIntent(userMsg) = "unknown"
  /\ plan.requests = <<ReqSuccessCount(detectLanguage(userMsg))>>

\* a Chinese text with an intent keyword and no answer of the planner
C30_WitnessChinese ==
  /\ workspace = "observability" /\ pc = "guarded"
  /\ ~Truthy(planObj)
  /\ detectLanguage(userMsg) = "zh"
  /\ detectObservabilityIntent(userMsg) # "unknown"

====
